---- MODULE Spec2Model ----
(***************************************************************************)
(* State-machine model of the task-manager bot: the task lifecycle         *)
(* (services/task_service.py), the progression engine                      *)
(* (services/user_service.py), the achievement evaluator                   *)
(* (services/achievement_service.py) and the handlers that drive them      *)
(* (handlers/tasks.py, handlers/achievements.py, handlers/common.py).      *)
(* The database tables are the state; every handler is one action, and    *)
(* the completion handler is also modelled await by await, each request    *)
(* in a session of its own.                                                *)
(***************************************************************************)
EXTENDS Integers, Sequences, FiniteSets, TLC

\* ------------------------------------------------------------------ bounds
\* Telegram accounts that talk to the bot.
NumUsers == 2
\* Largest task id handed out.
MaxTasks == 2
\* Requests handled in one run of the handler-level specification.
MaxRequests == 5
\* Experience up to which add_experience is called in SpecProgression.
MaxExperience == 640
\* Last day of the calendar.
MaxDay == 2
\* Largest category id.
MaxCategories == 1
\* Calls made in one run of direct calls to the task service.
MaxCalls == 3

\* The largest threshold a condition is checked against.
MaxConditionValue == 2

\* Calls made in one run of category calls.
MaxCategoryCalls == 4

\* Largest id a category row gets in a run of category calls.
MaxCategoryRows == 2

\* The longest title the handlers accept.
TitleLimit == 200

VARIABLES
    users,              \* table users: sequence of rows, id = position
    tasks,              \* table tasks: function id -> row
    achievements,       \* table achievements: sequence of rows, id = position
    user_achievements,  \* table user_achievements: sequence of rows, id = position
    last_call,          \* the service call the last request made, if any
    credited,           \* per task row: how often its xp_reward was credited (2: more than once)
    nreq,               \* requests handled so far
    sessions,           \* the completion requests in flight, each with its session
    categories,         \* table task_categories: function id -> row
    granted             \* per user id: the task xp_reward credited by completion requests

vars == <<users, tasks, achievements, user_achievements, last_call, credited, nreq,
          sessions, categories, granted>>

\* --------------------------------------------------------------- data model
\* `None` of an integer id (get_user_id_by_tg_id returns None for a stranger).
NoId == 0
\* NULL of a nullable column.
None == "None"
\* None in the due_date column (days count from 1); a missing category is
\* NoId.
NoDate == 0

TgIds == 1..NumUsers
TaskIds == 1..MaxTasks

TaskPriority == {"low", "medium", "high", "critical"}
TaskStatus == {"todo", "in_progress", "done", "cancelled"}

\* models.User: level, experience and completed_tasks defaults.
User(tg_id) ==
    [tg_id |-> tg_id, level |-> 1, experience |-> 0, completed_tasks |-> 0]

\* ---------------------------------------------------------- task service
\* _calculate_xp_reward falling through to the lowest reward.
calculate_xp_reward_low_default(priority) ==
    IF priority = "low" THEN 5
    ELSE IF priority = "medium" THEN 10
    ELSE IF priority = "high" THEN 20
    ELSE IF priority = "critical" THEN 30
    ELSE 5

calculate_xp_reward(priority) ==
    IF priority = "low" THEN 5
    ELSE IF priority = "medium" THEN 10
    ELSE IF priority = "high" THEN 20
    ELSE IF priority = "critical" THEN 30
    ELSE 10

\* SQLite INTEGER PRIMARY KEY without AUTOINCREMENT: one more than the largest
\* id in the table.
next_task_id(ts) ==
    IF DOMAIN ts = {} THEN 1
    ELSE (CHOOSE m \in DOMAIN ts : \A t \in DOMAIN ts : t <= m) + 1

\* create_task with is_important computed as the priority edit computes it.
create_task_high_only(ts, user_id, priority, due_date, category_id) ==
    LET task == [user_id |-> user_id,
                 priority |-> priority,
                 due_date |-> due_date,
                 category_id |-> category_id,
                 status |-> "todo",
                 completed_at |-> None,
                 xp_reward |-> calculate_xp_reward(priority),
                 is_important |-> (priority = "high")]
        id == next_task_id(ts)
    IN [t \in DOMAIN ts \cup {id} |-> IF t = id THEN task ELSE ts[t]]

create_task(ts, user_id, priority, due_date, category_id) ==
    LET task == [user_id |-> user_id,
                 priority |-> priority,
                 due_date |-> due_date,
                 category_id |-> category_id,
                 status |-> "todo",
                 completed_at |-> None,
                 xp_reward |-> calculate_xp_reward(priority),
                 is_important |-> (priority \in {"high", "critical"})]
        id == next_task_id(ts)
    IN [t \in DOMAIN ts \cup {id} |-> IF t = id THEN task ELSE ts[t]]

\* create_task with the title of the task kept in its row.
create_task_titled(ts, user_id, title, priority, due_date, category_id) ==
    LET id == next_task_id(ts)
        created == create_task(ts, user_id, priority, due_date, category_id)
    IN [t \in DOMAIN created |->
            IF t = id THEN created[t] @@ [title |-> title] ELSE created[t]]

\* get_task_by_id without the owner condition.
get_task_by_id_any_owner(ts, task_id, user_id) ==
    task_id \in DOMAIN ts

\* TRUE iff a row with this id and this owner exists.
get_task_by_id(ts, task_id, user_id) ==
    task_id \in DOMAIN ts /\ ts[task_id].user_id = user_id

\* update_task that derives xp_reward and is_important from a new priority.
update_task_derived(ts, task_id, user_id, update_data) ==
    IF ~get_task_by_id(ts, task_id, user_id) THEN ts
    ELSE [ts EXCEPT ![task_id] =
            [field \in DOMAIN @ |->
                IF field \in DOMAIN update_data THEN update_data[field]
                ELSE IF field = "xp_reward" /\ "priority" \in DOMAIN update_data
                THEN calculate_xp_reward(update_data.priority)
                ELSE IF field = "is_important" /\ "priority" \in DOMAIN update_data
                THEN update_data.priority \in {"high", "critical"}
                ELSE @[field]]]

update_task(ts, task_id, user_id, update_data) ==
    IF ~get_task_by_id(ts, task_id, user_id) THEN ts
    ELSE [ts EXCEPT ![task_id] =
            [field \in DOMAIN @ |->
                IF field \in DOMAIN update_data THEN update_data[field]
                ELSE @[field]]]

\* delete_task without the owner condition.
delete_task_any_owner(ts, task_id, user_id) ==
    IF ~get_task_by_id_any_owner(ts, task_id, user_id) THEN ts
    ELSE [t \in DOMAIN ts \ {task_id} |-> ts[t]]

delete_task(ts, task_id, user_id) ==
    IF ~get_task_by_id(ts, task_id, user_id) THEN ts
    ELSE [t \in DOMAIN ts \ {task_id} |-> ts[t]]

complete_task(ts, task_id, user_id) ==
    IF ~get_task_by_id(ts, task_id, user_id) THEN ts
    ELSE [ts EXCEPT ![task_id].status = "done",
                    ![task_id].completed_at = "utcnow"]

set_task_in_progress(ts, task_id, user_id) ==
    IF ~get_task_by_id(ts, task_id, user_id) THEN ts
    ELSE [ts EXCEPT ![task_id].status = "in_progress"]

\* cancel_task that cancels every task of the owner.
cancel_task_all(ts, task_id, user_id) ==
    IF ~get_task_by_id(ts, task_id, user_id) THEN ts
    ELSE [t \in DOMAIN ts |->
            IF ts[t].user_id = user_id THEN [ts[t] EXCEPT !.status = "cancelled"]
            ELSE ts[t]]

cancel_task(ts, task_id, user_id) ==
    IF ~get_task_by_id(ts, task_id, user_id) THEN ts
    ELSE [ts EXCEPT ![task_id].status = "cancelled"]

RECURSIVE order_by(_, _)
\* The rows of ids as a list in ascending order of key (a function on ids);
\* rows with equal keys come in id order, as the table scan yields them.
order_by(ids, key) ==
    IF ids = {} THEN <<>>
    ELSE LET first == CHOOSE t \in ids : \A u \in ids :
                            \/ key[t] < key[u]
                            \/ key[t] = key[u] /\ t <= u
         IN <<first>> \o order_by(ids \ {first}, key)

\* Place of a due date under ORDER BY due_date: NULL sorts first in SQLite.
due_date_rank(due_date) == IF due_date = NoDate THEN 0 ELSE due_date

\* Place of a priority under ORDER BY priority DESC: the column holds the
\* enum's names, which compare as text (MEDIUM > LOW > HIGH > CRITICAL).
priority_desc_rank(priority) ==
    CASE priority = "medium" -> 1
      [] priority = "low" -> 2
      [] priority = "high" -> 3
      [] priority = "critical" -> 4

\* ORDER BY due_date, priority DESC as one key.
due_date_priority_key(ts, ids) ==
    [t \in ids |-> 4 * due_date_rank(ts[t].due_date)
                   + priority_desc_rank(ts[t].priority)]

\* status_filter is a set of statuses, empty for None or []; category_id is
\* NoId (None) for no category filter.
get_user_tasks(ts, user_id, status_filter, category_id) ==
    LET ids == {t \in DOMAIN ts :
                    /\ ts[t].user_id = user_id
                    /\ status_filter # {} => ts[t].status \in status_filter
                    /\ category_id # NoId => ts[t].category_id = category_id}
    IN order_by(ids, due_date_priority_key(ts, ids))

\* get_overdue_tasks without the owner condition.
get_overdue_tasks_any_owner(ts, user_id, today) ==
    LET ids == {t \in DOMAIN ts :
                    /\ ts[t].due_date # NoDate /\ ts[t].due_date < today
                    /\ ts[t].status \in {"todo", "in_progress"}}
    IN order_by(ids, [t \in ids |-> 0])

\* get_overdue_tasks without the status condition.
get_overdue_tasks_any_status(ts, user_id, today) ==
    LET ids == {t \in DOMAIN ts :
                    /\ ts[t].user_id = user_id
                    /\ ts[t].due_date # NoDate /\ ts[t].due_date < today}
    IN order_by(ids, [t \in ids |-> 0])

get_overdue_tasks(ts, user_id, today) ==
    LET ids == {t \in DOMAIN ts :
                    /\ ts[t].user_id = user_id
                    /\ ts[t].due_date # NoDate /\ ts[t].due_date < today
                    /\ ts[t].status \in {"todo", "in_progress"}}
    IN order_by(ids, [t \in ids |-> 0])

\* utils/helpers.py is_overdue
is_overdue(task, today) ==
    IF task.due_date = NoDate THEN FALSE
    ELSE task.due_date < today /\ task.status \in {"todo", "in_progress"}

get_tasks_due_today(ts, user_id, today) ==
    LET ids == {t \in DOMAIN ts :
                    /\ ts[t].user_id = user_id
                    /\ ts[t].due_date = today
                    /\ ts[t].status \in {"todo", "in_progress"}}
    IN order_by(ids, [t \in ids |-> priority_desc_rank(ts[t].priority)])

get_tasks_by_category(ts, user_id, category_id) ==
    LET ids == {t \in DOMAIN ts :
                    /\ ts[t].user_id = user_id
                    /\ ts[t].category_id = category_id}
    IN order_by(ids, due_date_priority_key(ts, ids))

\* ------------------------------------------------------------- categories
\* The id SQLite gives the next category row: one more than the largest.
next_category_id(cs) ==
    IF DOMAIN cs = {} THEN 1
    ELSE (CHOOSE m \in DOMAIN cs : \A c \in DOMAIN cs : c <= m) + 1

create_category(cs, user_id, name, color) ==
    LET category == [user_id |-> user_id, name |-> name, color |-> color]
        id == next_category_id(cs)
    IN [c \in DOMAIN cs \cup {id} |-> IF c = id THEN category ELSE cs[c]]

\* get_category_by_id without the owner condition.
get_category_by_id_any_owner(cs, category_id, user_id) ==
    category_id \in DOMAIN cs

\* TRUE iff a category row with this id and this owner exists.
get_category_by_id(cs, category_id, user_id) ==
    category_id \in DOMAIN cs /\ cs[category_id].user_id = user_id

\* name and color are None when the caller does not pass them.
update_category(cs, category_id, user_id, name, color) ==
    IF ~get_category_by_id(cs, category_id, user_id) THEN cs
    ELSE [cs EXCEPT ![category_id].name = IF name # None THEN name ELSE @,
                    ![category_id].color = IF color # None THEN color ELSE @]

\* delete_category that deletes the tasks of the category with it.
delete_category_with_tasks(db, category_id, user_id) ==
    IF ~get_category_by_id(db.categories, category_id, user_id) THEN db
    ELSE [categories |-> [c \in DOMAIN db.categories \ {category_id} |->
                                db.categories[c]],
          tasks |-> [t \in {u \in DOMAIN db.tasks :
                                db.tasks[u].category_id # category_id} |->
                        db.tasks[t]]]

\* db is [categories, tasks]; the result is the db after the call.
delete_category(db, category_id, user_id) ==
    IF ~get_category_by_id(db.categories, category_id, user_id) THEN db
    ELSE [categories |-> [c \in DOMAIN db.categories \ {category_id} |->
                                db.categories[c]],
          tasks |-> [t \in DOMAIN db.tasks |->
                        IF db.tasks[t].category_id = category_id
                        THEN [db.tasks[t] EXCEPT !.category_id = NoId]
                        ELSE db.tasks[t]]]

\* ---------------------------------------------------------- user service
get_user_by_id(us, user_id) == user_id \in 1..Len(us)

\* get_user_by_tg_id that finds no one.
get_user_id_by_tg_id_none(us, tg_id) == NoId

get_user_id_by_tg_id(us, tg_id) ==
    IF \E i \in 1..Len(us) : us[i].tg_id = tg_id
    THEN CHOOSE i \in 1..Len(us) : us[i].tg_id = tg_id
    ELSE NoId

create_user(us, tg_id) == Append(us, User(tg_id))

RECURSIVE isqrt_search(_, _, _)
\* Largest r in lo..hi with r*r <= n (lo*lo <= n < (hi+1)*(hi+1)).
isqrt_search(n, lo, hi) ==
    IF lo >= hi THEN lo
    ELSE LET mid == (lo + hi + 1) \div 2
         IN IF mid * mid <= n THEN isqrt_search(n, mid, hi)
            ELSE isqrt_search(n, lo, mid - 1)

\* int(100 * (level ** 1.5)): the float product truncated, which is
\* floor(sqrt(10000 * level^3)) for every level the model reaches.
next_level_xp(level) ==
    isqrt_search(10000 * level * level * level, 0, 100 * level * level)

\* add_experience with a level-up only strictly above the threshold.
experience_added_strict(user, xp) ==
    LET experience == user.experience + xp
    IN [user EXCEPT !.experience = experience,
                    !.level = IF experience > next_level_xp(user.level)
                              THEN user.level + 1 ELSE user.level]

\* What add_experience does to the user object it has loaded.
experience_added(user, xp) ==
    LET experience == user.experience + xp
    IN [user EXCEPT !.experience = experience,
                    !.level = IF experience >= next_level_xp(user.level)
                              THEN user.level + 1 ELSE user.level]

\* add_experience that registers the user it does not find.
add_experience_upsert(us, user_id, xp) ==
    IF ~get_user_by_id(us, user_id) THEN create_user(us, user_id)
    ELSE [us EXCEPT ![user_id] = experience_added(@, xp)]

add_experience(us, user_id, xp) ==
    IF ~get_user_by_id(us, user_id) THEN us
    ELSE [us EXCEPT ![user_id] = experience_added(@, xp)]

\* What update_completed_tasks_count does to the user object it has loaded.
completed_tasks_counted(user) ==
    [user EXCEPT !.completed_tasks = @ + 1]

update_completed_tasks_count(us, user_id) ==
    IF ~get_user_by_id(us, user_id) THEN us
    ELSE [us EXCEPT ![user_id] = completed_tasks_counted(@)]

\* The None of get_user_stats: a record no user has (a level is 1 or more).
NoStats == [level |-> NoId, experience |-> 0, next_level_xp |-> 0,
            completed_tasks |-> 0]

get_user_stats(us, user_id) ==
    IF ~get_user_by_id(us, user_id) THEN NoStats
    ELSE [level |-> us[user_id].level,
          experience |-> us[user_id].experience,
          next_level_xp |-> next_level_xp(us[user_id].level),
          completed_tasks |-> us[user_id].completed_tasks]

\* --------------------------------------------------- achievement service
\* The names are the source's Russian names, transliterated.
default_achievements ==
    << [name |-> "Pervye shagi", condition_type |-> "tasks_count",
        condition_value |-> 1, xp_reward |-> 50],
       [name |-> "Produktivnost rastet", condition_type |-> "tasks_count",
        condition_value |-> 10, xp_reward |-> 100],
       [name |-> "Master del", condition_type |-> "tasks_count",
        condition_value |-> 50, xp_reward |-> 200],
       [name |-> "Uroven 5", condition_type |-> "level",
        condition_value |-> 5, xp_reward |-> 300],
       [name |-> "Prioritety na meste", condition_type |-> "important_tasks",
        condition_value |-> 5, xp_reward |-> 150] >>

RECURSIVE seed_loop(_, _)
seed_loop(achs, i) ==
    IF i > Len(default_achievements) THEN achs
    ELSE LET ach_data == default_achievements[i]
             existing == \E k \in 1..Len(achs) : achs[k].name = ach_data.name
         IN seed_loop(IF existing THEN achs ELSE Append(achs, ach_data), i + 1)

\* create_default_achievements without the look-up by name.
create_default_achievements_unchecked(achs) == achs \o default_achievements

create_default_achievements(achs) == seed_loop(achs, 1)

\* The achievement ids of the user's rows (unlocked_ids of check_achievements).
get_user_achievements(uas, user_id) ==
    {uas[k].achievement_id : k \in {j \in 1..Len(uas) : uas[j].user_id = user_id}}

\* _check_achievement_condition with > for >= in each comparison.
check_achievement_condition_strict(us, ts, user_id, achievement) ==
    LET condition_type == achievement.condition_type
        condition_value == achievement.condition_value
    IN IF condition_type = "tasks_count"
       THEN Cardinality({t \in DOMAIN ts :
                ts[t].user_id = user_id /\ ts[t].status = "done"})
            > condition_value
       ELSE IF condition_type = "level"
       THEN get_user_by_id(us, user_id) /\ us[user_id].level > condition_value
       ELSE IF condition_type = "important_tasks"
       THEN Cardinality({t \in DOMAIN ts :
                ts[t].user_id = user_id /\ ts[t].status = "done"
                /\ ts[t].is_important = TRUE})
            > condition_value
       ELSE FALSE

\* _check_achievement_condition with True for a condition type it does not
\* know.
check_achievement_condition_open(us, ts, user_id, achievement) ==
    LET condition_type == achievement.condition_type
        condition_value == achievement.condition_value
    IN IF condition_type = "tasks_count"
       THEN Cardinality({t \in DOMAIN ts :
                ts[t].user_id = user_id /\ ts[t].status = "done"})
            >= condition_value
       ELSE IF condition_type = "level"
       THEN get_user_by_id(us, user_id) /\ us[user_id].level >= condition_value
       ELSE IF condition_type = "important_tasks"
       THEN Cardinality({t \in DOMAIN ts :
                ts[t].user_id = user_id /\ ts[t].status = "done"
                /\ ts[t].is_important = TRUE})
            >= condition_value
       ELSE TRUE

check_achievement_condition(us, ts, user_id, achievement) ==
    LET condition_type == achievement.condition_type
        condition_value == achievement.condition_value
    IN IF condition_type = "tasks_count"
       THEN Cardinality({t \in DOMAIN ts :
                ts[t].user_id = user_id /\ ts[t].status = "done"})
            >= condition_value
       ELSE IF condition_type = "level"
       THEN get_user_by_id(us, user_id) /\ us[user_id].level >= condition_value
       ELSE IF condition_type = "important_tasks"
       THEN Cardinality({t \in DOMAIN ts :
                ts[t].user_id = user_id /\ ts[t].status = "done"
                /\ ts[t].is_important = TRUE})
            >= condition_value
       ELSE FALSE

\* unlock_achievement that stores the row and credits nothing.
unlock_achievement_no_bonus(db, achs, user_id, achievement_id) ==
    IF \E k \in 1..Len(db.user_achievements) :
            /\ db.user_achievements[k].user_id = user_id
            /\ db.user_achievements[k].achievement_id = achievement_id
    THEN db
    ELSE IF achievement_id \notin 1..Len(achs) THEN db
    ELSE [users |-> db.users,
          user_achievements |->
              Append(db.user_achievements,
                     [user_id |-> user_id, achievement_id |-> achievement_id])]

\* unlock_achievement without its "already unlocked" check.
unlock_achievement_unchecked(db, achs, user_id, achievement_id) ==
    IF achievement_id \notin 1..Len(achs) THEN db
    ELSE [users |-> add_experience(db.users, user_id, achs[achievement_id].xp_reward),
          user_achievements |->
              Append(db.user_achievements,
                     [user_id |-> user_id, achievement_id |-> achievement_id])]

\* db is [users, user_achievements]; the result is the db after the call.
unlock_achievement(db, achs, user_id, achievement_id) ==
    IF \E k \in 1..Len(db.user_achievements) :
            /\ db.user_achievements[k].user_id = user_id
            /\ db.user_achievements[k].achievement_id = achievement_id
    THEN db
    ELSE IF achievement_id \notin 1..Len(achs) THEN db
    ELSE [users |-> add_experience(db.users, user_id, achs[achievement_id].xp_reward),
          user_achievements |->
              Append(db.user_achievements,
                     [user_id |-> user_id, achievement_id |-> achievement_id])]

RECURSIVE check_loop(_, _, _, _, _, _, _)
\* The for loop of check_achievements from achievement i on; acc is
\* [users, user_achievements, newly_unlocked].
check_loop(acc, achs, ts, user_id, unlocked_ids, i, n) ==
    IF i > n THEN acc
    ELSE IF i \in unlocked_ids
    THEN check_loop(acc, achs, ts, user_id, unlocked_ids, i + 1, n)
    ELSE IF check_achievement_condition(acc.users, ts, user_id, achs[i])
    THEN LET db == unlock_achievement(
                        [users |-> acc.users,
                         user_achievements |-> acc.user_achievements],
                        achs, user_id, i)
         IN check_loop([users |-> db.users,
                        user_achievements |-> db.user_achievements,
                        newly_unlocked |-> Append(acc.newly_unlocked, i)],
                       achs, ts, user_id, unlocked_ids, i + 1, n)
    ELSE check_loop(acc, achs, ts, user_id, unlocked_ids, i + 1, n)

\* check_achievements that skips no achievement as already unlocked.
check_achievements_no_snapshot(us, ts, achs, uas, user_id) ==
    check_loop([users |-> us, user_achievements |-> uas, newly_unlocked |-> <<>>],
               achs, ts, user_id, {}, 1, Len(achs))

check_achievements(us, ts, achs, uas, user_id) ==
    check_loop([users |-> us, user_achievements |-> uas, newly_unlocked |-> <<>>],
               achs, ts, user_id, get_user_achievements(uas, user_id),
               1, Len(achs))

\* ------------------------------------------------------------------ state
\* The last request called check_achievements(user_id), which returned
\* new_achievements (a list of achievement ids).
Checked(user_id, new_achievements) ==
    [op |-> "check_achievements", user_id |-> user_id,
     new_achievements |-> new_achievements]

\* The last request was the call add_experience(user_id, xp).
Added(user_id, xp) ==
    [op |-> "add_experience", user_id |-> user_id, xp |-> xp]

\* The last request was /start from the account tg_id.
Started(tg_id) == [op |-> "cmd_start", tg_id |-> tg_id]

\* The last request made neither call.
NoCall == [op |-> "none"]

\* The last request was the task service call op(task_id, user_id); result is
\* FALSE for a None or False result and TRUE otherwise.
Called(op, task_id, user_id, result) ==
    [op |-> op, task_id |-> task_id, user_id |-> user_id, result |-> result]

\* The two requests that are in flight at once.
Sessions == {1, 2}

\* A request not yet received: no session, nothing loaded.  inserted lists
\* the achievement ids of the rows the request's check_achievements inserts.
IdleSession ==
    [call |-> "idle", phase |-> "", tg_id |-> NoId, task_id |-> NoId,
     user_id |-> NoId, user |-> <<>>, xp_reward |-> 0, unlocked_ids |-> {},
     i |-> 0, newly_unlocked |-> <<>>, calls |-> <<>>, before |-> <<>>,
     inserted |-> <<>>]

\* The state after main() has created the tables and seeded the achievements.
Init ==
    /\ users = <<>>
    /\ tasks = <<>>
    /\ achievements = create_default_achievements(<<>>)
    /\ user_achievements = <<>>
    /\ last_call = NoCall
    /\ credited = <<>>
    /\ nreq = 0
    /\ sessions = [r \in Sessions |-> IdleSession]
    /\ categories = <<>>
    /\ granted = <<>>

\* --------------------------------------------------------------- handlers
\* handlers/common.py cmd_start
CmdStart(tg_id) ==
    /\ users' = IF get_user_id_by_tg_id(users, tg_id) = NoId
                THEN create_user(users, tg_id) ELSE users
    /\ granted' = IF get_user_id_by_tg_id(users, tg_id) = NoId
                  THEN Append(granted, 0) ELSE granted
    /\ last_call' = Started(tg_id)
    /\ UNCHANGED <<tasks, achievements, categories, user_achievements, credited>>

\* handlers/tasks.py create_task_final, reached at the end of the creation form.
CreateTaskFinal(tg_id, priority, due_date, category_id) ==
    LET user_id == get_user_id_by_tg_id(users, tg_id)
    IN /\ IF user_id = NoId
          THEN /\ last_call' = NoCall
               /\ UNCHANGED <<tasks, credited>>
          ELSE /\ tasks' = create_task(tasks, user_id, priority, due_date, category_id)
               /\ credited' = [t \in DOMAIN tasks' |->
                                IF t \in DOMAIN tasks THEN credited[t] ELSE 0]
               /\ last_call' = NoCall
       /\ UNCHANGED <<users, achievements, categories, granted, user_achievements>>

\* handlers/tasks.py process_new_task_priority with update_task_field.
ProcessNewTaskPriority(tg_id, task_id, priority_value) ==
    LET user_id == get_user_id_by_tg_id(users, tg_id)
        update_data == [priority |-> priority_value,
                        xp_reward |-> calculate_xp_reward(priority_value),
                        is_important |-> (priority_value = "high")]
    IN /\ tasks' = update_task(tasks, task_id, user_id, update_data)
       /\ last_call' = NoCall
       /\ UNCHANGED <<users, achievements, categories, granted, user_achievements, credited>>

\* handlers/tasks.py complete_task
CompleteTask(tg_id, task_id) ==
    LET user_id == get_user_id_by_tg_id(users, tg_id)
        found == get_task_by_id(tasks, task_id, user_id)
        ts == complete_task(tasks, task_id, user_id)
        us1 == update_completed_tasks_count(users, user_id)
        us2 == add_experience(us1, user_id, ts[task_id].xp_reward)
        res == check_achievements(us2, ts, achievements, user_achievements, user_id)
    IN /\ IF ~found
          THEN /\ last_call' = NoCall
               /\ UNCHANGED <<users, tasks, user_achievements, credited, granted>>
          ELSE /\ tasks' = ts
               /\ granted' = [granted EXCEPT ![user_id] = @ + ts[task_id].xp_reward]
               /\ users' = res.users
               /\ user_achievements' = res.user_achievements
               /\ credited' = [credited EXCEPT ![task_id] = IF @ < 2 THEN @ + 1 ELSE @]
               /\ last_call' = Checked(user_id, res.newly_unlocked)
       /\ UNCHANGED <<achievements, categories>>

\* handlers/tasks.py set_task_in_progress
SetTaskInProgress(tg_id, task_id) ==
    LET user_id == get_user_id_by_tg_id(users, tg_id)
    IN /\ tasks' = set_task_in_progress(tasks, task_id, user_id)
       /\ last_call' = NoCall
       /\ UNCHANGED <<users, achievements, categories, granted, user_achievements, credited>>

\* handlers/tasks.py confirm_cancel_task
ConfirmCancelTask(tg_id, task_id) ==
    LET user_id == get_user_id_by_tg_id(users, tg_id)
    IN /\ tasks' = cancel_task(tasks, task_id, user_id)
       /\ last_call' = NoCall
       /\ UNCHANGED <<users, achievements, categories, granted, user_achievements, credited>>

\* handlers/tasks.py confirm_delete_task
ConfirmDeleteTask(tg_id, task_id) ==
    LET user_id == get_user_id_by_tg_id(users, tg_id)
    IN /\ tasks' = delete_task(tasks, task_id, user_id)
       /\ credited' = [t \in DOMAIN tasks' |-> credited[t]]
       /\ last_call' = NoCall
       /\ UNCHANGED <<users, achievements, categories, granted, user_achievements>>

\* handlers/achievements.py cmd_stats
CmdStats(tg_id) ==
    LET user_id == get_user_id_by_tg_id(users, tg_id)
        res == check_achievements(users, tasks, achievements, user_achievements,
                                  user_id)
    IN IF user_id = NoId
       THEN /\ last_call' = NoCall
            /\ UNCHANGED <<users, tasks, achievements, categories, granted, user_achievements, credited>>
       ELSE /\ users' = res.users
            /\ user_achievements' = res.user_achievements
            /\ last_call' = Checked(user_id, res.newly_unlocked)
            /\ UNCHANGED <<tasks, achievements, categories, granted, credited>>

\* services/achievement_service.py unlock_achievement, called on its own
\* for a registered user.
UnlockAchievement(user_id, achievement_id) ==
    LET db == unlock_achievement(
                    [users |-> users, user_achievements |-> user_achievements],
                    achievements, user_id, achievement_id)
    IN /\ users' = db.users
       /\ user_achievements' = db.user_achievements
       /\ last_call' = NoCall
       /\ UNCHANGED <<tasks, achievements, categories, granted, credited>>

\* services/user_service.py add_experience, called on its own.
AddExperience(user_id, xp) ==
    /\ users' = add_experience(users, user_id, xp)
    /\ last_call' = Added(user_id, xp)
    /\ UNCHANGED <<tasks, achievements, categories, granted, user_achievements, credited>>

\* ------------------------------------------------ the task service, called directly
\* services/task_service.py create_task
TaskServiceCreate(user_id, priority, due_date, category_id) ==
    /\ tasks' = create_task(tasks, user_id, priority, due_date, category_id)
    /\ credited' = [t \in DOMAIN tasks' |->
                        IF t \in DOMAIN tasks THEN credited[t] ELSE 0]
    /\ last_call' = Called("create_task", next_task_id(tasks), user_id, TRUE)
    /\ UNCHANGED <<users, achievements, categories, granted, user_achievements>>

\* services/task_service.py update_task
TaskServiceUpdate(task_id, user_id, update_data) ==
    /\ tasks' = update_task(tasks, task_id, user_id, update_data)
    /\ last_call' = Called("update_task", task_id, user_id,
                           get_task_by_id(tasks, task_id, user_id))
                        @@ [update_data |-> update_data]
    /\ UNCHANGED <<users, achievements, categories, granted, user_achievements, credited>>

\* services/task_service.py delete_task
TaskServiceDelete(task_id, user_id) ==
    /\ tasks' = delete_task(tasks, task_id, user_id)
    /\ credited' = [t \in DOMAIN tasks' |-> credited[t]]
    /\ last_call' = Called("delete_task", task_id, user_id,
                           get_task_by_id(tasks, task_id, user_id))
    /\ UNCHANGED <<users, achievements, categories, granted, user_achievements>>

\* services/task_service.py complete_task
TaskServiceComplete(task_id, user_id) ==
    /\ tasks' = complete_task(tasks, task_id, user_id)
    /\ last_call' = Called("complete_task", task_id, user_id,
                           get_task_by_id(tasks, task_id, user_id))
    /\ UNCHANGED <<users, achievements, categories, granted, user_achievements, credited>>

\* services/task_service.py set_task_in_progress
TaskServiceSetInProgress(task_id, user_id) ==
    /\ tasks' = set_task_in_progress(tasks, task_id, user_id)
    /\ last_call' = Called("set_task_in_progress", task_id, user_id,
                           get_task_by_id(tasks, task_id, user_id))
    /\ UNCHANGED <<users, achievements, categories, granted, user_achievements, credited>>

\* services/task_service.py cancel_task
TaskServiceCancel(task_id, user_id) ==
    /\ tasks' = cancel_task(tasks, task_id, user_id)
    /\ last_call' = Called("cancel_task", task_id, user_id,
                           get_task_by_id(tasks, task_id, user_id))
    /\ UNCHANGED <<users, achievements, categories, granted, user_achievements, credited>>

\* services/task_service.py _calculate_xp_reward, called on its own.
CalculateXpReward(priority) ==
    /\ last_call' = [op |-> "calculate_xp_reward", priority |-> priority,
                      result |-> calculate_xp_reward(priority)]
    /\ UNCHANGED <<users, tasks, achievements, categories, granted, user_achievements, credited>>

\* services/achievement_service.py _check_achievement_condition, called on
\* its own.
CheckAchievementCondition(user_id, achievement) ==
    /\ last_call' = [op |-> "check_achievement_condition", user_id |-> user_id,
                      achievement |-> achievement,
                      result |-> check_achievement_condition(users, tasks, user_id,
                                                             achievement)]
    /\ UNCHANGED <<users, tasks, achievements, categories, granted, user_achievements, credited>>

\* The last request was the category call op(category_id, user_id); result
\* is FALSE for a None or False result and TRUE otherwise.
CalledCategory(op, category_id, user_id, result) ==
    [op |-> op, category_id |-> category_id, user_id |-> user_id,
     result |-> result]

\* services/task_service.py create_category with the default color, as
\* handlers/categories.py process_category_name calls it.
TaskServiceCreateCategory(user_id, name) ==
    /\ categories' = create_category(categories, user_id, name, "#808080")
    /\ last_call' = CalledCategory("create_category",
                                   next_category_id(categories), user_id, TRUE)
    /\ UNCHANGED <<users, tasks, achievements, user_achievements, credited,
                   granted>>

\* services/task_service.py get_category_by_id
TaskServiceGetCategory(category_id, user_id) ==
    /\ last_call' = CalledCategory("get_category_by_id", category_id, user_id,
                        get_category_by_id(categories, category_id, user_id))
    /\ UNCHANGED <<users, tasks, achievements, user_achievements, credited,
                   granted, categories>>

\* services/task_service.py update_category
TaskServiceUpdateCategory(category_id, user_id, name, color) ==
    /\ categories' = update_category(categories, category_id, user_id, name, color)
    /\ last_call' = CalledCategory("update_category", category_id, user_id,
                        get_category_by_id(categories, category_id, user_id))
    /\ UNCHANGED <<users, tasks, achievements, user_achievements, credited,
                   granted>>

\* services/task_service.py delete_category
TaskServiceDeleteCategory(category_id, user_id) ==
    LET db == delete_category([categories |-> categories, tasks |-> tasks],
                              category_id, user_id)
    IN /\ categories' = db.categories
       /\ tasks' = db.tasks
       /\ last_call' = CalledCategory("delete_category", category_id, user_id,
                        get_category_by_id(categories, category_id, user_id))
       /\ UNCHANGED <<users, achievements, user_achievements, credited, granted>>

\* ------------------------------------------------- the category handlers
\* handlers/categories.py process_category_name, for a name within the
\* length limit.  For an account that has not registered user_id is None and
\* the INSERT fails on the NOT NULL column: no row is written.
ProcessCategoryName(tg_id, name) ==
    LET user_id == get_user_id_by_tg_id(users, tg_id)
    IN /\ categories' = IF user_id = NoId THEN categories
                        ELSE create_category(categories, user_id, name, "#808080")
       /\ last_call' = NoCall
       /\ UNCHANGED <<users, tasks, achievements, user_achievements, credited,
                      granted>>

\* handlers/categories.py confirm_delete_category
ConfirmDeleteCategory(tg_id, category_id) ==
    LET user_id == get_user_id_by_tg_id(users, tg_id)
        db == delete_category([categories |-> categories, tasks |-> tasks],
                              category_id, user_id)
    IN /\ categories' = db.categories
       /\ tasks' = db.tasks
       /\ last_call' = NoCall
       /\ UNCHANGED <<users, achievements, user_achievements, credited, granted>>

\* handlers/categories.py set_task_category for the callback data
\* task:<task_id>:set_category:<category_id>, and :none for NoId.  The
\* database is SQLite with foreign keys not switched on, so the UPDATE
\* stores whatever id it is given.
SetTaskCategory(tg_id, task_id, category_id) ==
    LET user_id == get_user_id_by_tg_id(users, tg_id)
    IN /\ tasks' = update_task(tasks, task_id, user_id,
                               [category_id |-> category_id])
       /\ last_call' = NoCall
       /\ UNCHANGED <<users, achievements, categories, granted, user_achievements,
                      credited>>

\* --------------------------------------------------------------- dispatch
\* Callback data is the tuple of its parts between colons.  The callback
\* handlers of the routers in the order of handlers/__init__.py (common,
\* tasks, achievements, categories) and, within a router, of registration;
\* state is the FSM state the handler is registered for ("" for any), exact
\* is TRUE for F.data == and FALSE for F.data.startswith, whose argument
\* ends with a colon in every registration.
callback_handlers ==
    << [name |-> "cancel_action", state |-> "",
        exact |-> TRUE,
        parts |-> <<"cancel">>],
       [name |-> "cancel_task_creation", state |-> "",
        exact |-> TRUE,
        parts |-> <<"cancel_creation">>],
       [name |-> "skip_description", state |-> "TaskForm.waiting_for_description",
        exact |-> TRUE,
        parts |-> <<"skip_description">>],
       [name |-> "skip_due_date", state |-> "TaskForm.waiting_for_due_date",
        exact |-> TRUE,
        parts |-> <<"skip_due_date">>],
       [name |-> "process_task_category", state |-> "TaskForm.waiting_for_category",
        exact |-> FALSE,
        parts |-> <<"category", "select">>],
       [name |-> "complete_task", state |-> "",
        exact |-> FALSE,
        parts |-> <<"task", "complete">>],
       [name |-> "set_task_in_progress", state |-> "",
        exact |-> FALSE,
        parts |-> <<"task", "progress">>],
       [name |-> "cancel_task", state |-> "",
        exact |-> FALSE,
        parts |-> <<"task", "cancel">>],
       [name |-> "confirm_cancel_task", state |-> "",
        exact |-> FALSE,
        parts |-> <<"confirm", "cancel_task">>],
       [name |-> "delete_task", state |-> "",
        exact |-> FALSE,
        parts |-> <<"task", "delete">>],
       [name |-> "confirm_delete_task", state |-> "",
        exact |-> FALSE,
        parts |-> <<"confirm", "delete_task">>],
       [name |-> "filter_tasks", state |-> "",
        exact |-> FALSE,
        parts |-> <<"tasks", "filter">>],
       [name |-> "back_to_tasks_list", state |-> "",
        exact |-> TRUE,
        parts |-> <<"tasks", "list">>],
       [name |-> "view_task_details", state |-> "",
        exact |-> FALSE,
        parts |-> <<"task", "view">>],
       [name |-> "start_task_edit", state |-> "",
        exact |-> FALSE,
        parts |-> <<"task", "edit">>],
       [name |-> "edit_task_title_start", state |-> "EditTaskForm.choosing_field",
        exact |-> FALSE,
        parts |-> <<"edit", "field", "title">>],
       [name |-> "edit_task_description_start", state |-> "EditTaskForm.choosing_field",
        exact |-> FALSE,
        parts |-> <<"edit", "field", "description">>],
       [name |-> "clear_new_task_description", state |-> "EditTaskForm.waiting_for_new_description",
        exact |-> FALSE,
        parts |-> <<"edit", "clear_description">>],
       [name |-> "edit_task_priority_start", state |-> "EditTaskForm.choosing_field",
        exact |-> FALSE,
        parts |-> <<"edit", "field", "priority">>],
       [name |-> "process_new_task_priority", state |-> "EditTaskForm.waiting_for_new_priority",
        exact |-> FALSE,
        parts |-> <<"priority">>],
       [name |-> "clear_new_task_due_date", state |-> "EditTaskForm.waiting_for_new_due_date",
        exact |-> FALSE,
        parts |-> <<"edit", "clear_due_date">>],
       [name |-> "cancel_edit_task", state |-> "",
        exact |-> FALSE,
        parts |-> <<"cancel_edit">>],
       [name |-> "manage_categories", state |-> "",
        exact |-> TRUE,
        parts |-> <<"categories", "manage">>],
       [name |-> "show_categories_list", state |-> "",
        exact |-> TRUE,
        parts |-> <<"categories", "list">>],
       [name |-> "create_category_start", state |-> "",
        exact |-> TRUE,
        parts |-> <<"categories", "create">>],
       [name |-> "view_category", state |-> "",
        exact |-> FALSE,
        parts |-> <<"category", "view">>],
       [name |-> "edit_category_name_start", state |-> "",
        exact |-> FALSE,
        parts |-> <<"category", "edit", "name">>],
       [name |-> "edit_category_color_start", state |-> "",
        exact |-> FALSE,
        parts |-> <<"category", "edit", "color">>],
       [name |-> "set_category_color", state |-> "",
        exact |-> FALSE,
        parts |-> <<"category">>],
       [name |-> "delete_category_confirm", state |-> "",
        exact |-> FALSE,
        parts |-> <<"category", "delete">>],
       [name |-> "confirm_delete_category", state |-> "",
        exact |-> FALSE,
        parts |-> <<"confirm", "delete_category">>],
       [name |-> "filter_tasks_by_category", state |-> "",
        exact |-> FALSE,
        parts |-> <<"tasks", "filter", "category">>],
       [name |-> "show_category_filters", state |-> "",
        exact |-> TRUE,
        parts |-> <<"tasks", "show_category_filters">>],
       [name |-> "edit_task_category_start", state |-> "",
        exact |-> FALSE,
        parts |-> <<"edit", "field", "category">>],
       [name |-> "set_task_category", state |-> "",
        exact |-> FALSE,
        parts |-> <<"task">>] >>

\* TRUE iff the handler's filters pass for the callback data in the FSM state.
handler_matches(handler, state, data) ==
    /\ handler.state = "" \/ handler.state = state
    /\ IF handler.exact THEN data = handler.parts
       ELSE /\ Len(data) > Len(handler.parts)
            /\ SubSeq(data, 1, Len(handler.parts)) = handler.parts

\* The name of the first registered handler whose filters pass.
dispatch(state, data) ==
    LET matching == {i \in DOMAIN callback_handlers :
                        handler_matches(callback_handlers[i], state, data)}
    IN IF matching = {} THEN "unhandled"
       ELSE callback_handlers[CHOOSE i \in matching :
                                \A j \in matching : i <= j].name

\* int() of a part of the callback data that is an id; the parts the model
\* sends are the ids 1 and 2.
to_int(part) ==
    IF part = "1" THEN 1 ELSE IF part = "2" THEN 2 ELSE NoId

\* The last request was a callback with this data, which the dispatcher gave
\* to this handler.
Dispatched(data, handler) ==
    [op |-> "callback", data |-> data, handler |-> handler]

\* A callback from the account tg_id in the FSM state state: the dispatcher
\* picks the handler and the handler runs.  Of the handlers the category
\* keyboards lead to, set_category_color and confirm_delete_category write
\* to the database; the others show a message or a keyboard.
Callback(tg_id, state, data) ==
    LET handler == dispatch(state, data)
        user_id == get_user_id_by_tg_id(users, tg_id)
        db == delete_category([categories |-> categories, tasks |-> tasks],
                              to_int(data[3]), user_id)
    IN /\ handler \in {"unhandled", "cancel_action", "manage_categories",
                       "show_categories_list", "create_category_start",
                       "view_category", "edit_category_name_start",
                       "edit_category_color_start", "set_category_color",
                       "delete_category_confirm", "confirm_delete_category"}
       /\ IF handler = "set_category_color" /\ Len(data) >= 4 /\ data[3] = "set_color"
          THEN /\ categories' = update_category(categories, to_int(data[2]),
                                                user_id, None, data[4])
               /\ UNCHANGED tasks
          ELSE IF handler = "confirm_delete_category"
          THEN /\ categories' = db.categories
               /\ tasks' = db.tasks
          ELSE UNCHANGED <<categories, tasks>>
       /\ last_call' = Dispatched(data, handler)
       /\ UNCHANGED <<users, achievements, user_achievements, credited, granted>>

\* ------------------------------------------- the user service on its own
\* The last call was the user service call op(user_id); result is FALSE for
\* a None result and TRUE otherwise.
CalledUser(op, user_id, result) ==
    [op |-> op, user_id |-> user_id, result |-> result]

\* services/user_service.py add_experience, with its result.
UserServiceAddExperience(user_id, xp) ==
    /\ users' = add_experience(users, user_id, xp)
    /\ last_call' = CalledUser("add_experience", user_id,
                               get_user_by_id(users, user_id))
    /\ UNCHANGED <<tasks, achievements, categories, granted, user_achievements,
                   credited>>

\* services/user_service.py update_completed_tasks_count, with its result.
UserServiceUpdateCompletedTasksCount(user_id) ==
    /\ users' = update_completed_tasks_count(users, user_id)
    /\ last_call' = CalledUser("update_completed_tasks_count", user_id,
                               get_user_by_id(users, user_id))
    /\ UNCHANGED <<tasks, achievements, categories, granted, user_achievements,
                   credited>>

\* services/user_service.py get_user_stats
UserServiceGetUserStats(user_id) ==
    /\ last_call' = CalledUser("get_user_stats", user_id,
                               get_user_stats(users, user_id) # NoStats)
    /\ UNCHANGED <<users, tasks, achievements, categories, granted,
                   user_achievements, credited>>

\* ---------------------------------------------------------------- seeding
\* The last call was create_default_achievements; result is the list of the
\* achievements it created.
Seeded(result) == [op |-> "create_default_achievements", result |-> result]

\* bot.py main: create_default_achievements run once more, at a start of
\* the bot.
SeedDefaults ==
    /\ achievements' = create_default_achievements(achievements)
    /\ last_call' = Seeded(SubSeq(achievements', Len(achievements) + 1,
                                  Len(achievements')))
    /\ UNCHANGED <<users, tasks, categories, granted, user_achievements, credited>>

\* ----------------------------------------------------------------- titles
\* A text is the tuple of its characters; NoText is the text of a message
\* that is not a text message (message.text is None).
NoText == <<"None">>
Blanks(n) == [i \in 1..n |-> " "]
Letters(n) == [i \in 1..n |-> "a"]

RECURSIVE lstrip(_)
lstrip(text) ==
    IF text # <<>> /\ Head(text) = " " THEN lstrip(Tail(text)) ELSE text

RECURSIVE rstrip(_)
rstrip(text) ==
    IF text # <<>> /\ text[Len(text)] = " "
    THEN rstrip(SubSeq(text, 1, Len(text) - 1)) ELSE text

\* str.strip
strip(text) == rstrip(lstrip(text))

\* The checks of handlers/tasks.py process_task_title: TRUE iff the text is
\* stored as the title of the form.
title_accepted(text) ==
    IF text = NoText \/ strip(text) = <<>> THEN FALSE
    ELSE IF Len(text) > TitleLimit THEN FALSE
    ELSE TRUE

\* The last request gave the text as the title of a task; result is TRUE iff
\* a task row was written with it.
Titled(op, text, result) == [op |-> op, text |-> text, result |-> result]

\* handlers/tasks.py process_task_title and, at the end of the form it
\* starts, create_task_final: the title the form keeps is the stripped text.
ProcessTaskTitle(tg_id, text, priority) ==
    LET user_id == get_user_id_by_tg_id(users, tg_id)
    IN /\ IF title_accepted(text) /\ user_id # NoId
          THEN /\ tasks' = create_task_titled(tasks, user_id, strip(text), priority,
                                              NoDate, NoId)
               /\ credited' = [t \in DOMAIN tasks' |->
                                IF t \in DOMAIN tasks THEN credited[t] ELSE 0]
               /\ last_call' = Titled("process_task_title", text, TRUE)
          ELSE /\ last_call' = Titled("process_task_title", text, FALSE)
               /\ UNCHANGED <<tasks, credited>>
       /\ UNCHANGED <<users, achievements, categories, granted, user_achievements>>

\* handlers/tasks.py process_new_task_title with update_task_field.  For a
\* message without text len(message.text) raises and nothing is written.
ProcessNewTaskTitle(tg_id, task_id, text) ==
    LET user_id == get_user_id_by_tg_id(users, tg_id)
    IN /\ IF text = NoText
          THEN /\ last_call' = Titled("process_new_task_title", text, FALSE)
               /\ UNCHANGED tasks
          ELSE IF Len(text) > TitleLimit
          THEN /\ last_call' = Titled("process_new_task_title", text, FALSE)
               /\ UNCHANGED tasks
          ELSE /\ tasks' = update_task(tasks, task_id, user_id, [title |-> text])
               /\ last_call' = Titled("process_new_task_title", text,
                                      get_task_by_id(tasks, task_id, user_id))
       /\ UNCHANGED <<users, achievements, categories, granted, user_achievements,
                      credited>>

\* services/task_service.py create_task called directly with a title.
TaskServiceCreateTitled(user_id, title, priority) ==
    /\ tasks' = create_task_titled(tasks, user_id, title, priority, NoDate, NoId)
    /\ credited' = [t \in DOMAIN tasks' |->
                        IF t \in DOMAIN tasks THEN credited[t] ELSE 0]
    /\ last_call' = Titled("create_task", title, TRUE)
    /\ UNCHANGED <<users, achievements, categories, granted, user_achievements>>

\* ------------------------------------------- the completion request, by await
\* The handler's calls with add_experience ahead of
\* update_completed_tasks_count.
next_call_xp_first(call) ==
    CASE call = "get_user_id_by_tg_id" -> "complete_task"
      [] call = "complete_task" -> "add_experience"
      [] call = "add_experience" -> "update_completed_tasks_count"
      [] call = "update_completed_tasks_count" -> "check_achievements"
      [] call = "check_achievements" -> "answer"

\* The service calls of handlers/tasks.py complete_task in the order the
\* handler makes them; "answer" is the reply that ends the request.
next_call(call) ==
    CASE call = "get_user_id_by_tg_id" -> "complete_task"
      [] call = "complete_task" -> "update_completed_tasks_count"
      [] call = "update_completed_tasks_count" -> "add_experience"
      [] call = "add_experience" -> "check_achievements"
      [] call = "check_achievements" -> "answer"

\* The first await of a service call.
first_phase(call) ==
    CASE call \in {"get_user_id_by_tg_id", "complete_task"} -> "select"
      [] call \in {"update_completed_tasks_count", "add_experience"} -> "commit"
      [] call = "check_achievements" -> "snapshot"
      [] call = "answer" -> ""

\* The request s enters a service call, which the handler's log records.
Enter(s, call) ==
    [s EXCEPT !.call = call, !.phase = first_phase(call),
              !.calls = IF call = "answer" THEN @ ELSE Append(@, call)]

\* The UPDATE a commit issues for a loaded user object: the columns whose
\* value the session has changed, and only those.
flush_user(us, user_id, loaded, changed) ==
    [us EXCEPT ![user_id] =
        [field \in DOMAIN @ |->
            IF changed[field] # loaded[field] THEN changed[field] ELSE @[field]]]

\* What the database holds of users, tasks and unlocks.
Persisted ==
    [users |-> users, tasks |-> tasks, user_achievements |-> user_achievements]

\* The middleware opens a session for a "task:complete:<task_id>" callback;
\* before is what the database held when the request arrived.
ReceiveCompleteTask(r, tg_id, task_id) ==
    /\ sessions[r].call = "idle"
    /\ sessions' = [sessions EXCEPT ![r] =
            Enter([IdleSession EXCEPT !.tg_id = tg_id, !.task_id = task_id,
                                      !.before = Persisted],
                  "get_user_id_by_tg_id")]
    /\ UNCHANGED <<users, tasks, achievements, categories, granted, user_achievements, last_call,
                   credited, nreq>>

\* get_user_id_by_tg_id: the SELECT loads the user object into the session.
LoadUser(r) ==
    LET s == sessions[r]
        user_id == get_user_id_by_tg_id(users, s.tg_id)
    IN /\ s.call = "get_user_id_by_tg_id"
       /\ sessions' = [sessions EXCEPT ![r] =
               Enter([s EXCEPT !.user_id = user_id,
                               !.user = IF user_id = NoId THEN <<>>
                                        ELSE users[user_id]],
                     next_call(s.call))]
       /\ UNCHANGED <<users, tasks, achievements, categories, granted, user_achievements, last_call,
                      credited, nreq>>

\* task_service.complete_task up to its commit: get_task_by_id.
SelectTask(r) ==
    LET s == sessions[r]
    IN /\ s.call = "complete_task" /\ s.phase = "select"
       /\ sessions' = [sessions EXCEPT ![r] =
               IF get_task_by_id(tasks, s.task_id, s.user_id)
               THEN [s EXCEPT !.phase = "commit"]
               ELSE Enter(s, "answer")]
       /\ UNCHANGED <<users, tasks, achievements, categories, granted, user_achievements, last_call,
                      credited, nreq>>

\* task_service.complete_task: status and completed_at are committed.
CommitTask(r) ==
    LET s == sessions[r]
    IN /\ s.call = "complete_task" /\ s.phase = "commit"
       /\ tasks' = complete_task(tasks, s.task_id, s.user_id)
       /\ sessions' = [sessions EXCEPT ![r].phase = "refresh"]
       /\ UNCHANGED <<users, achievements, categories, granted, user_achievements, last_call,
                      credited, nreq>>

\* task_service.complete_task: refresh(task), then the handler goes on.
RefreshTask(r) ==
    LET s == sessions[r]
    IN /\ s.call = "complete_task" /\ s.phase = "refresh"
       /\ s.task_id \in DOMAIN tasks
       /\ sessions' = [sessions EXCEPT ![r] =
               Enter([s EXCEPT !.xp_reward = tasks[s.task_id].xp_reward],
                     next_call(s.call))]
       /\ UNCHANGED <<users, tasks, achievements, categories, granted, user_achievements, last_call,
                      credited, nreq>>

\* user_service.update_completed_tasks_count up to its commit.  The SELECT of
\* get_user_by_id returns the object the session already holds.
CommitCompletedTasks(r) ==
    LET s == sessions[r]
        user == completed_tasks_counted(s.user)
    IN /\ s.call = "update_completed_tasks_count" /\ s.phase = "commit"
       /\ users' = flush_user(users, s.user_id, s.user, user)
       /\ sessions' = [sessions EXCEPT ![r].user = user, ![r].phase = "refresh"]
       /\ UNCHANGED <<tasks, achievements, categories, granted, user_achievements, last_call,
                      credited, nreq>>

\* user_service.add_experience(user_id, task.xp_reward) up to its commit.
CommitExperience(r) ==
    LET s == sessions[r]
        user == experience_added(s.user, s.xp_reward)
    IN /\ s.call = "add_experience" /\ s.phase = "commit"
       /\ users' = flush_user(users, s.user_id, s.user, user)
       /\ credited' = [credited EXCEPT ![s.task_id] = IF @ < 2 THEN @ + 1 ELSE @]
       /\ granted' = [granted EXCEPT ![s.user_id] = @ + s.xp_reward]
       /\ sessions' = [sessions EXCEPT ![r].user = user, ![r].phase = "refresh"]
       /\ UNCHANGED <<tasks, achievements, categories, user_achievements, last_call, nreq>>

\* refresh(user) at the end of either user service call, then the handler
\* goes on.
RefreshUser(r) ==
    LET s == sessions[r]
    IN /\ s.call \in {"update_completed_tasks_count", "add_experience"}
       /\ s.phase = "refresh"
       /\ sessions' = [sessions EXCEPT ![r] =
               Enter([s EXCEPT !.user = users[s.user_id]], next_call(s.call))]
       /\ UNCHANGED <<users, tasks, achievements, categories, granted, user_achievements, last_call,
                      credited, nreq>>

\* check_achievements: get_all_achievements and get_user_achievements.
SnapshotUnlocked(r) ==
    LET s == sessions[r]
    IN /\ s.call = "check_achievements" /\ s.phase = "snapshot"
       /\ sessions' = [sessions EXCEPT ![r] =
               [s EXCEPT !.unlocked_ids =
                            get_user_achievements(user_achievements, s.user_id),
                         !.i = 1, !.phase = "condition"]]
       /\ UNCHANGED <<users, tasks, achievements, categories, granted, user_achievements, last_call,
                      credited, nreq>>

\* check_achievements: one turn of the for loop up to unlock_achievement.  The
\* counts are queried from the tasks table; the level is read from the user
\* object the session holds.
CheckCondition(r) ==
    LET s == sessions[r]
        us == [users EXCEPT ![s.user_id] = s.user]
    IN /\ s.call = "check_achievements" /\ s.phase = "condition"
       /\ sessions' = [sessions EXCEPT ![r] =
               IF s.i > Len(achievements) THEN Enter(s, next_call(s.call))
               ELSE IF s.i \in s.unlocked_ids THEN [s EXCEPT !.i = @ + 1]
               ELSE IF check_achievement_condition(us, tasks, s.user_id,
                                                   achievements[s.i])
               THEN [s EXCEPT !.phase = "existing"]
               ELSE [s EXCEPT !.i = @ + 1]]
       /\ UNCHANGED <<users, tasks, achievements, categories, granted, user_achievements, last_call,
                      credited, nreq>>

\* unlock_achievement: the SELECT for an existing row.  With a row the call
\* returns None, and check_achievements lists the achievement all the same.
SelectExisting(r) ==
    LET s == sessions[r]
    IN /\ s.call = "check_achievements" /\ s.phase = "existing"
       /\ sessions' = [sessions EXCEPT ![r] =
               IF s.i \in get_user_achievements(user_achievements, s.user_id)
               THEN [s EXCEPT !.newly_unlocked = Append(@, s.i), !.i = @ + 1,
                              !.phase = "condition"]
               ELSE [s EXCEPT !.phase = "insert"]]
       /\ UNCHANGED <<users, tasks, achievements, categories, granted, user_achievements, last_call,
                      credited, nreq>>

\* unlock_achievement: session.add(user_achievement) and add_experience up to
\* its commit, which writes the new row and the user's experience.
InsertUnlock(r) ==
    LET s == sessions[r]
        user == experience_added(s.user, achievements[s.i].xp_reward)
    IN /\ s.call = "check_achievements" /\ s.phase = "insert"
       /\ user_achievements' =
               Append(user_achievements,
                      [user_id |-> s.user_id, achievement_id |-> s.i])
       /\ users' = flush_user(users, s.user_id, s.user, user)
       /\ sessions' = [sessions EXCEPT ![r].user = user, ![r].phase = "refresh",
                                        ![r].inserted = Append(@, s.i)]
       /\ UNCHANGED <<tasks, achievements, categories, granted, last_call, credited, nreq>>

\* unlock_achievement: refresh(user) of add_experience, the empty commit and
\* refresh(user_achievement); check_achievements lists the achievement.
RefreshUnlocked(r) ==
    LET s == sessions[r]
    IN /\ s.call = "check_achievements" /\ s.phase = "refresh"
       /\ sessions' = [sessions EXCEPT ![r] =
               [s EXCEPT !.user = users[s.user_id],
                         !.newly_unlocked = Append(@, s.i), !.i = @ + 1,
                         !.phase = "condition"]]
       /\ UNCHANGED <<users, tasks, achievements, categories, granted, user_achievements, last_call,
                      credited, nreq>>

\* An await of the handler raises (the database is locked or unreachable, the
\* process is stopped): the handler catches nothing, the request ends, and
\* what its session has committed so far stays committed.
Abort(r) ==
    /\ sessions[r].call \notin {"idle", "answer", "failed"}
    /\ sessions' = [sessions EXCEPT ![r].call = "failed", ![r].phase = ""]
    /\ UNCHANGED <<users, tasks, achievements, categories, granted, user_achievements, last_call,
                   credited, nreq>>

\* ---------------------------------------------------------- specifications
\* One more request of a bounded run.
Request == nreq < MaxRequests /\ nreq' = nreq + 1 /\ UNCHANGED sessions

\* A request served alone in a run that is not bounded by MaxRequests.
Alone == UNCHANGED <<nreq, sessions>>

\* The next task row still gets an id within TaskIds.
TaskRoom == next_task_id(tasks) <= MaxTasks

\* The bot handling one request after the other, any account, any button;
\* tasks are created with the due date skipped and no category.
Next ==
    \/ \E tg_id \in TgIds : Request /\ CmdStart(tg_id)
    \/ \E tg_id \in TgIds, priority \in TaskPriority :
            Request /\ TaskRoom /\ CreateTaskFinal(tg_id, priority, NoDate, NoId)
    \/ \E tg_id \in TgIds, task_id \in TaskIds, priority \in TaskPriority :
            Request /\ ProcessNewTaskPriority(tg_id, task_id, priority)
    \/ \E tg_id \in TgIds, task_id \in TaskIds : Request /\ CompleteTask(tg_id, task_id)
    \/ \E tg_id \in TgIds, task_id \in TaskIds : Request /\ SetTaskInProgress(tg_id, task_id)
    \/ \E tg_id \in TgIds, task_id \in TaskIds : Request /\ ConfirmCancelTask(tg_id, task_id)
    \/ \E tg_id \in TgIds, task_id \in TaskIds : Request /\ ConfirmDeleteTask(tg_id, task_id)
    \/ \E tg_id \in TgIds : Request /\ CmdStats(tg_id)

Spec == Init /\ [][Next]_vars

\* The requests of Next and, besides, the achievement service called directly.
NextService ==
    \/ Next
    \/ \E user_id \in 1..Len(users), achievement_id \in 1..(Len(achievements) + 1) :
            Request /\ UnlockAchievement(user_id, achievement_id)

SpecService == Init /\ [][NextService]_vars

\* The xp values the progression engine is called with: none, one point, the
\* task rewards and the achievement rewards.
XpInputs ==
    {0, 1} \cup {calculate_xp_reward(p) : p \in TaskPriority}
           \cup {default_achievements[i].xp_reward : i \in 1..Len(default_achievements)}

\* The progression engine alone: one registered user, add_experience called
\* with any of XpInputs.
NextProgression ==
    \/ CmdStart(1) /\ Alone
    \/ \E xp \in XpInputs :
            /\ Len(users) >= 1
            /\ users[1].experience + xp <= MaxExperience
            /\ AddExperience(1, xp)
            /\ Alone

SpecProgression == Init /\ [][NextProgression]_vars

\* Two users, each with a history of add_experience calls of its own that
\* credit achievement rewards.
NextHistories ==
    \/ \E tg_id \in {1, 2} : CmdStart(tg_id) /\ Alone
    \/ \E user_id \in 1..Len(users), i \in 1..Len(default_achievements) :
            /\ users[user_id].experience + default_achievements[i].xp_reward
                    <= MaxExperience
            /\ AddExperience(user_id, default_achievements[i].xp_reward)
            /\ Alone

SpecHistories == Init /\ [][NextHistories]_vars

\* One user who creates high-priority tasks, completes tasks that are not done
\* yet, deletes tasks and asks for the statistics, until level 5 (the level
\* achievement) is reached.
NextCascade ==
    \/ CmdStart(1) /\ Alone
    \/ /\ next_task_id(tasks) <= default_achievements[5].condition_value
       /\ CreateTaskFinal(1, "high", NoDate, NoId)
       /\ Alone
    \/ \E task_id \in DOMAIN tasks :
            /\ Len(users) >= 1
            /\ users[1].level < default_achievements[4].condition_value
            /\ tasks[task_id].status # "done"
            /\ CompleteTask(1, task_id)
            /\ Alone
    \/ \E task_id \in DOMAIN tasks : ConfirmDeleteTask(1, task_id) /\ Alone
    \/ CmdStats(1) /\ Alone

SpecCascade == Init /\ [][NextCascade]_vars

\* Two completion requests of one user in flight at once, interleaved at
\* their awaits.  The user registers and creates tasks before the first of
\* them is received.
NextRace ==
    \/ /\ \A r \in Sessions : sessions[r].call = "idle"
       /\ \/ CmdStart(1) /\ Alone
          \/ \E priority \in {"low", "high"} :
                TaskRoom /\ CreateTaskFinal(1, priority, NoDate, NoId) /\ Alone
    \/ \E r \in Sessions, task_id \in DOMAIN tasks :
            ReceiveCompleteTask(r, 1, task_id)
    \/ \E r \in Sessions : LoadUser(r)
    \/ \E r \in Sessions : SelectTask(r)
    \/ \E r \in Sessions : CommitTask(r)
    \/ \E r \in Sessions : RefreshTask(r)
    \/ \E r \in Sessions : CommitCompletedTasks(r)
    \/ \E r \in Sessions : CommitExperience(r)
    \/ \E r \in Sessions : RefreshUser(r)
    \/ \E r \in Sessions : SnapshotUnlocked(r)
    \/ \E r \in Sessions : CheckCondition(r)
    \/ \E r \in Sessions : SelectExisting(r)
    \/ \E r \in Sessions : InsertUnlock(r)
    \/ \E r \in Sessions : RefreshUnlocked(r)

SpecRace == Init /\ [][NextRace]_vars

\* The days a due date or "today" is taken from.
Days == 1..MaxDay

\* The category ids a task is filed under.
CategoryIds == 1..MaxCategories

\* The payloads update_task is called with: a new priority or a category.
UpdatePayloads ==
    {[priority |-> "critical"]} \cup {[category_id |-> c] : c \in CategoryIds}

\* The user ids the task service is called with directly: a user and another
\* user, either of them registered or not.
Callers == {1, 2}

\* One more call of a run of direct service calls.
ServiceCall == nreq < MaxCalls /\ nreq' = nreq + 1 /\ UNCHANGED sessions

\* The task service called directly, for any user id and any task id, by
\* registered users and strangers alike.
NextTasks ==
    \/ \E tg_id \in TgIds : ServiceCall /\ CmdStart(tg_id)
    \/ \E user_id \in Callers, priority \in {"low", "critical"},
          due_date \in Days \cup {NoDate} :
            ServiceCall /\ TaskRoom
                    /\ TaskServiceCreate(user_id, priority, due_date, NoId)
    \/ \E task_id \in TaskIds, user_id \in Callers, update_data \in UpdatePayloads :
            ServiceCall /\ TaskServiceUpdate(task_id, user_id, update_data)
    \/ \E task_id \in TaskIds, user_id \in Callers :
            ServiceCall /\ TaskServiceDelete(task_id, user_id)
    \/ \E task_id \in TaskIds, user_id \in Callers :
            ServiceCall /\ TaskServiceComplete(task_id, user_id)
    \/ \E task_id \in TaskIds, user_id \in Callers :
            ServiceCall /\ TaskServiceSetInProgress(task_id, user_id)
    \/ \E task_id \in TaskIds, user_id \in Callers :
            ServiceCall /\ TaskServiceCancel(task_id, user_id)
    \/ \E priority \in TaskPriority \cup {"urgent"} :
            ServiceCall /\ CalculateXpReward(priority)

SpecTasks == Init /\ [][NextTasks]_vars

\* The thresholds a condition is checked against.
ConditionValues == 1..MaxConditionValue

\* The achievements a condition is checked for: each condition type the
\* evaluator knows and one it does not, with any of the thresholds.
ConditionInputs ==
    {[name |-> "", condition_type |-> condition_type,
      condition_value |-> condition_value, xp_reward |-> 0] :
        condition_type \in {"tasks_count", "level", "important_tasks", "streak_days"},
        condition_value \in ConditionValues}

\* Users who register, create tasks, complete them and gain experience, and
\* the condition check called for any user and any of ConditionInputs.
NextConditions ==
    \/ \E tg_id \in TgIds : ServiceCall /\ CmdStart(tg_id)
    \/ \E user_id \in TgIds, priority \in {"low", "critical"} :
            ServiceCall /\ TaskRoom
                    /\ TaskServiceCreate(user_id, priority, NoDate, NoId)
    \/ \E task_id \in TaskIds, user_id \in TgIds :
            ServiceCall /\ TaskServiceComplete(task_id, user_id)
    \/ \E user_id \in 1..Len(users) :
            ServiceCall /\ AddExperience(user_id, default_achievements[2].xp_reward)
    \/ \E user_id \in TgIds, achievement \in ConditionInputs :
            CheckAchievementCondition(user_id, achievement) /\ Alone

SpecConditions == Init /\ [][NextConditions]_vars

\* Achievements of a condition type the evaluator has no branch for, with a
\* threshold that any count or level meets and one that a first task meets.
UnknownAchievements ==
    {[name |-> "Seriya", condition_type |-> condition_type,
      condition_value |-> condition_value, xp_reward |-> 10] :
        condition_type \in {"streak_days", "categories_count"},
        condition_value \in {0, 1}}

\* The state after main() when the achievements table holds, besides the
\* seeded rows, a row of one of UnknownAchievements.
InitUnknown ==
    /\ users = <<>>
    /\ tasks = <<>>
    /\ \E achievement \in UnknownAchievements :
            achievements = Append(create_default_achievements(<<>>), achievement)
    /\ user_achievements = <<>>
    /\ last_call = NoCall
    /\ credited = <<>>
    /\ nreq = 0
    /\ sessions = [r \in Sessions |-> IdleSession]
    /\ categories = <<>>
    /\ granted = <<>>

\* The requests of Next on a database with an achievement of unknown type.
SpecUnknown == InitUnknown /\ [][Next]_vars

\* The ids category calls are made with.
CategoryRowIds == 1..MaxCategoryRows

\* The next category row still gets an id within CategoryRowIds.
CategoryRoom == next_category_id(categories) <= MaxCategoryRows

\* One more call of a run of category calls.
CategoryCall == nreq < MaxCategoryCalls /\ nreq' = nreq + 1 /\ UNCHANGED sessions

\* The new name or the new color update_category is called with.
CategoryEdits == {[name |-> "home", color |-> None],
                  [name |-> None, color |-> "#ff0000"]}

\* The category calls of the task service made directly, for any user id and
\* any category id, next to tasks that are created under any category id.
NextCategories ==
    \/ \E user_id \in TgIds :
            CategoryCall /\ CategoryRoom /\ TaskServiceCreateCategory(user_id, "work")
    \/ \E user_id \in TgIds, category_id \in CategoryRowIds \cup {NoId} :
            CategoryCall /\ TaskRoom
                    /\ TaskServiceCreate(user_id, "low", NoDate, category_id)
    \/ \E category_id \in CategoryRowIds, user_id \in TgIds :
            CategoryCall /\ TaskServiceGetCategory(category_id, user_id)
    \/ \E category_id \in CategoryRowIds, user_id \in TgIds, edit \in CategoryEdits :
            CategoryCall /\ TaskServiceUpdateCategory(category_id, user_id,
                                                 edit.name, edit.color)
    \/ \E category_id \in CategoryRowIds, user_id \in TgIds :
            CategoryCall /\ TaskServiceDeleteCategory(category_id, user_id)

SpecCategories == Init /\ [][NextCategories]_vars

\* The texts a message brings: a blank, a letter, a padded letter, texts of
\* TitleLimit and TitleLimit + 1 letters, a padded text that is too long
\* before it is stripped only, and NoText.
MessageTexts ==
    {NoText, Blanks(1), Letters(1), <<" ", "a", " ">>, Letters(TitleLimit),
     Letters(TitleLimit + 1), Letters(TitleLimit) \o Blanks(1)}

\* The titles create_task is called with directly: the texts and the empty
\* text.
TitleArguments == (MessageTexts \ {NoText}) \cup {<<>>}

\* Tasks created through the form, renamed through the edit form, and
\* created by create_task called directly with any title.
NextTitles ==
    \/ \E tg_id \in TgIds : ServiceCall /\ CmdStart(tg_id)
    \/ \E tg_id \in TgIds, text \in MessageTexts :
            ServiceCall /\ TaskRoom /\ ProcessTaskTitle(tg_id, text, "medium")
    \/ \E tg_id \in TgIds, task_id \in TaskIds, text \in MessageTexts :
            ServiceCall /\ ProcessNewTaskTitle(tg_id, task_id, text)
    \/ \E user_id \in Callers, title \in TitleArguments :
            ServiceCall /\ TaskRoom /\ TaskServiceCreateTitled(user_id, title, "medium")

SpecTitles == Init /\ [][NextTitles]_vars

\* The achievements tables a start of the bot can find: any of the default
\* achievements already there (name is a unique column), in the order of
\* the defaults.
PartlySeeded ==
    {SelectSeq(default_achievements, LAMBDA a : a.name \in names) :
        names \in SUBSET {default_achievements[i].name :
                            i \in 1..Len(default_achievements)}}

InitSeeding ==
    /\ users = <<>>
    /\ tasks = <<>>
    /\ achievements \in PartlySeeded
    /\ user_achievements = <<>>
    /\ last_call = NoCall
    /\ credited = <<>>
    /\ nreq = 0
    /\ sessions = [r \in Sessions |-> IdleSession]
    /\ categories = <<>>
    /\ granted = <<>>

\* One user who registers, creates and completes tasks, and the bot started
\* again at any moment.
NextSeeding ==
    \/ Request /\ SeedDefaults
    \/ Request /\ CmdStart(1)
    \/ Request /\ TaskRoom /\ CreateTaskFinal(1, "low", NoDate, NoId)
    \/ \E task_id \in TaskIds : Request /\ CompleteTask(1, task_id)

SpecSeeding == InitSeeding /\ [][NextSeeding]_vars

\* Two users who register, create tasks and complete them through the bot,
\* and delete_task called for any task id and any of the two.
NextDeletion ==
    \/ \E tg_id \in Callers : Request /\ CmdStart(tg_id)
    \/ \E tg_id \in Callers :
            Request /\ TaskRoom /\ CreateTaskFinal(tg_id, "low", NoDate, NoId)
    \/ \E tg_id \in Callers, task_id \in TaskIds :
            Request /\ CompleteTask(tg_id, task_id)
    \/ \E task_id \in TaskIds, user_id \in Callers :
            Request /\ TaskServiceDelete(task_id, user_id)

SpecDeletion == Init /\ [][NextDeletion]_vars

\* The user ids the user service is called with: the ids of the users there
\* can be and one more, which no user has.
UserIdArguments == 1..(NumUsers + 1)

\* Users who register and create tasks, and the user service called for any
\* of UserIdArguments.
NextUsers ==
    \/ \E tg_id \in TgIds : ServiceCall /\ CmdStart(tg_id)
    \/ \E tg_id \in TgIds :
            ServiceCall /\ TaskRoom /\ CreateTaskFinal(tg_id, "low", NoDate, NoId)
    \/ \E user_id \in UserIdArguments, xp \in {5, 50} :
            ServiceCall /\ UserServiceAddExperience(user_id, xp)
    \/ \E user_id \in UserIdArguments :
            ServiceCall /\ UserServiceUpdateCompletedTasksCount(user_id)
    \/ \E user_id \in UserIdArguments :
            ServiceCall /\ UserServiceGetUserStats(user_id)

SpecUsers == Init /\ [][NextUsers]_vars

\* The payloads update_task is called with: a priority alone, a priority
\* with the reward and the flag its caller derived, a status, a due date,
\* and a key that is no attribute of a task.
UpdateArguments ==
    {[priority |-> "critical"],
     [priority |-> "high", xp_reward |-> calculate_xp_reward("high"),
      is_important |-> TRUE],
     [status |-> "in_progress"],
     [due_date |-> 1],
     [colour |-> "red"]}

\* Users who register and create tasks, and update_task called for any task
\* id, either user and any of UpdateArguments.
NextUpdates ==
    \/ \E tg_id \in TgIds : ServiceCall /\ CmdStart(tg_id)
    \/ \E user_id \in Callers, priority \in {"low", "high"} :
            ServiceCall /\ TaskRoom
                    /\ TaskServiceCreate(user_id, priority, NoDate, NoId)
    \/ \E task_id \in TaskIds, user_id \in Callers, update_data \in UpdateArguments :
            ServiceCall /\ TaskServiceUpdate(task_id, user_id, update_data)

SpecUpdates == Init /\ [][NextUpdates]_vars

\* Users who register, create categories and tasks, delete categories and
\* put tasks into categories through the handlers, with any id in the
\* callback data.
NextIntegrity ==
    \/ \E tg_id \in TgIds : CategoryCall /\ CmdStart(tg_id)
    \/ \E tg_id \in TgIds :
            CategoryCall /\ CategoryRoom /\ ProcessCategoryName(tg_id, "work")
    \/ \E tg_id \in TgIds :
            CategoryCall /\ TaskRoom /\ CreateTaskFinal(tg_id, "low", NoDate, NoId)
    \/ \E tg_id \in TgIds, category_id \in CategoryRowIds :
            CategoryCall /\ ConfirmDeleteCategory(tg_id, category_id)
    \/ \E tg_id \in TgIds, task_id \in TaskIds,
          category_id \in CategoryRowIds \cup {NoId} :
            CategoryCall /\ SetTaskCategory(tg_id, task_id, category_id)
    \/ \E tg_id \in TgIds, task_id \in TaskIds :
            CategoryCall /\ CompleteTask(tg_id, task_id)

SpecIntegrity == Init /\ [][NextIntegrity]_vars

\* Two users who register, create tasks, complete tasks of their own, and
\* press In progress and confirm Cancel on any task id.  Every other request
\* here leaves a record in last_call, so a step after which last_call is
\* NoCall is one of these two requests.
NextStatus ==
    \/ \E tg_id \in TgIds : Request /\ CmdStart(tg_id)
    \/ \E user_id \in Callers :
            Request /\ TaskRoom /\ TaskServiceCreate(user_id, "low", NoDate, NoId)
    \/ \E tg_id \in TgIds, task_id \in TaskIds :
            /\ get_task_by_id(tasks, task_id, get_user_id_by_tg_id(users, tg_id))
            /\ Request
            /\ CompleteTask(tg_id, task_id)
    \/ \E tg_id \in TgIds, task_id \in TaskIds :
            Request /\ SetTaskInProgress(tg_id, task_id)
    \/ \E tg_id \in TgIds, task_id \in TaskIds :
            Request /\ ConfirmCancelTask(tg_id, task_id)

SpecStatus == Init /\ [][NextStatus]_vars

\* The callback data of the buttons of the category keyboards, for the
\* category ids 1 and 2, and a callback no handler is registered for.
CategoryCallbacks ==
    {<<"cancel">>, <<"categories", "manage">>, <<"categories", "list">>,
     <<"categories", "create">>, <<"noop">>}
    \cup {<<"category", "view", id>> : id \in {"1", "2"}}
    \cup {<<"category", "edit", "name", id>> : id \in {"1", "2"}}
    \cup {<<"category", "edit", "color", id>> : id \in {"1", "2"}}
    \cup {<<"category", id, "set_color", "#FF0000">> : id \in {"1", "2"}}
    \cup {<<"category", "delete", id>> : id \in {"1", "2"}}
    \cup {<<"confirm", "delete_category", id>> : id \in {"1", "2"}}

\* The FSM states a callback can arrive in: none, and the category step of
\* the task form.
FsmStates == {"", "TaskForm.waiting_for_category"}

\* Users who register and create categories, and any of CategoryCallbacks
\* from any account in any of FsmStates.
NextDispatch ==
    \/ \E tg_id \in TgIds : CategoryCall /\ CmdStart(tg_id)
    \/ \E tg_id \in TgIds :
            CategoryCall /\ CategoryRoom /\ ProcessCategoryName(tg_id, "work")
    \/ \E tg_id \in TgIds, state \in FsmStates, data \in CategoryCallbacks :
            CategoryCall /\ Callback(tg_id, state, data)

SpecDispatch == Init /\ [][NextDispatch]_vars

\* No request is being handled.
Quiet == \A r \in Sessions : sessions[r].call \in {"idle", "answer", "failed"}

\* Completion requests of one user, handled one at a time and await by await,
\* any of whose awaits may raise.
NextFailure ==
    \/ /\ \A r \in Sessions : sessions[r].call = "idle"
       /\ \/ CmdStart(1) /\ Alone
          \/ \E priority \in TaskPriority :
                TaskRoom /\ CreateTaskFinal(1, priority, NoDate, NoId) /\ Alone
    \/ \E r \in Sessions, task_id \in DOMAIN tasks :
            Quiet /\ ReceiveCompleteTask(r, 1, task_id)
    \/ \E r \in Sessions : LoadUser(r)
    \/ \E r \in Sessions : SelectTask(r)
    \/ \E r \in Sessions : CommitTask(r)
    \/ \E r \in Sessions : RefreshTask(r)
    \/ \E r \in Sessions : CommitCompletedTasks(r)
    \/ \E r \in Sessions : CommitExperience(r)
    \/ \E r \in Sessions : RefreshUser(r)
    \/ \E r \in Sessions : SnapshotUnlocked(r)
    \/ \E r \in Sessions : CheckCondition(r)
    \/ \E r \in Sessions : SelectExisting(r)
    \/ \E r \in Sessions : InsertUnlock(r)
    \/ \E r \in Sessions : RefreshUnlocked(r)
    \/ \E r \in Sessions : Abort(r)

SpecFailure == Init /\ [][NextFailure]_vars

\* ------------------------------------------------------------------ claims
HasRow(user_id, achievement_id) ==
    \E k \in 1..Len(user_achievements) :
        /\ user_achievements[k].user_id = user_id
        /\ user_achievements[k].achievement_id = achievement_id

DoneTasks(user_id) ==
    {t \in DOMAIN tasks : tasks[t].user_id = user_id /\ tasks[t].status = "done"}

\* C1: every task's xp_reward is the table value of its priority (low 5,
\* medium 10, high 20, critical 30) and is_important holds exactly for high and
\* critical, after any creations and priority edits.
C1_DerivedFieldsFollowPriority ==
    \A t \in DOMAIN tasks :
        /\ tasks[t].xp_reward =
                CASE tasks[t].priority = "low" -> 5
                  [] tasks[t].priority = "medium" -> 10
                  [] tasks[t].priority = "high" -> 20
                  [] tasks[t].priority = "critical" -> 30
        /\ tasks[t].is_important = (tasks[t].priority \in {"high", "critical"})

\* C2: a task's xp_reward is credited at most once, however many completion
\* requests name it.
C2_CreditedAtMostOnce ==
    \A t \in DOMAIN tasks : credited[t] <= 1

\* C3: the only status changes are todo->in_progress, todo->done,
\* in_progress->done, todo->cancelled and in_progress->cancelled; done and
\* cancelled are never left.
C3_OnlyForwardTransitions ==
    [][\A t \in DOMAIN tasks \cap DOMAIN tasks' :
            tasks'[t].status # tasks[t].status =>
                <<tasks[t].status, tasks'[t].status>> \in
                    {<<"todo", "in_progress">>, <<"todo", "done">>,
                     <<"in_progress", "done">>, <<"todo", "cancelled">>,
                     <<"in_progress", "cancelled">>}]_vars

\* C4: there is at most one user_achievements row for each (user, achievement)
\* pair when requests run one after the other.
C4_OneRowPerPair ==
    \A i, j \in 1..Len(user_achievements) :
        (/\ user_achievements[i].user_id = user_achievements[j].user_id
         /\ user_achievements[i].achievement_id = user_achievements[j].achievement_id)
        => i = j

\* C4 witness: an achievement was unlocked, its condition still holds and a
\* later check of the same user unlocked nothing.
C4_Witness ==
    \E u \in 1..Len(users) :
        /\ HasRow(u, 1)
        /\ DoneTasks(u) # {}
        /\ last_call = Checked(u, <<>>)

\* C5: a check_achievements call that directly follows a check_achievements
\* call of the same user (no completion in between: completed_tasks is the
\* same) returns the empty list, inserts no row and grants no experience.
C5_SecondCheckUnlocksNothing ==
    [][(/\ last_call.op = "check_achievements"
        /\ last_call'.op = "check_achievements"
        /\ last_call'.user_id = last_call.user_id
        /\ users'[last_call.user_id].completed_tasks =
                users[last_call.user_id].completed_tasks)
       => (/\ last_call'.new_achievements = <<>>
           /\ user_achievements' = user_achievements
           /\ users' = users)]_vars

\* floor(100 * level^1.5), tabulated.
\* C6: when two requests of one user interleave their check_achievements
\* steps, each in its own session, no (user, achievement) pair ever gets a
\* second user_achievements row, so no reward is credited for one.
C6_InterleavedUnlockOnce ==
    \A u \in 1..Len(users), a \in 1..Len(achievements) :
        Cardinality({k \in 1..Len(user_achievements) :
                        user_achievements[k] = [user_id |-> u, achievement_id |-> a]})
            <= 1

LevelThreshold(level) ==
    CASE level = 1 -> 100
      [] level = 2 -> 282
      [] level = 3 -> 519
      [] level = 4 -> 800
      [] level = 5 -> 1118
      [] level = 6 -> 1469

\* C7: add_experience(user, xp) adds xp to the experience and raises the level
\* by exactly 1 if the new experience has reached floor(100 * level^1.5) of the
\* level before the call, and leaves the level alone otherwise.
C7_AddExperienceRule ==
    [][last_call'.op = "add_experience" =>
        LET u == last_call'.user_id
            xp == last_call'.xp
        IN u \in 1..Len(users) =>
            /\ users'[u].experience = users[u].experience + xp
            /\ users'[u].level =
                    IF users'[u].experience >= LevelThreshold(users[u].level)
                    THEN users[u].level + 1 ELSE users[u].level
            /\ users'[u].completed_tasks = users[u].completed_tasks]_vars

\* C7 witness: one call took a level-1 user past the thresholds of level 1
\* and of level 2, and the level is 2.
C7_Witness ==
    /\ last_call = Added(1, 300)
    /\ Len(users) >= 1
    /\ users[1].experience = 300
    /\ users[1].level = 2

\* C8: add_experience(user, 0) changes neither level nor experience.
C8_ZeroXpChangesNothing ==
    [][(last_call'.op = "add_experience" /\ last_call'.xp = 0) => users' = users]_vars

\* C9: two users with equal experience have equal levels, whatever calls of
\* add_experience gave them the experience.
C9_LevelDeterminedByExperience ==
    \A u, v \in 1..Len(users) :
        users[u].experience = users[v].experience => users[u].level = users[v].level


IsPrefix(s, t) ==
    Len(s) <= Len(t) /\ \A k \in 1..Len(s) : s[k] = t[k]

\* The four steps among the service calls a request has made so far.
Steps(r) ==
    SelectSeq(sessions[r].calls, LAMBDA call : call # "get_user_id_by_tg_id")

\* C10 as stated: in every completion request the steps run in the order
\* complete-task, credit-xp, increment-completed-count, check-achievements.
C10_XpBeforeCount ==
    \A r \in Sessions :
        IsPrefix(Steps(r), <<"complete_task", "add_experience",
                             "update_completed_tasks_count", "check_achievements">>)

\* C10, amended: in every completion request the steps run in the order
\* complete-task, increment-completed-count, credit-xp, check-achievements.
C10_CountBeforeXp ==
    \A r \in Sessions :
        IsPrefix(Steps(r), <<"complete_task", "update_completed_tasks_count",
                             "add_experience", "check_achievements">>)

\* C10 witness: a completion request has run all four steps and answered.
C10_Witness ==
    \E r \in Sessions :
        /\ sessions[r].call = "answer"
        /\ Len(Steps(r)) = 4
        /\ tasks[sessions[r].task_id].status = "done"
        /\ users[sessions[r].user_id].completed_tasks >= 1

\* C11: the completion sequence is atomic with respect to failure: when a
\* request has failed, users, tasks and unlocks are what they were before it,
\* so no task is left done without its experience credit.
C11_FailureRestoresState ==
    \A r \in Sessions :
        sessions[r].call = "failed" => Persisted = sessions[r].before

\* The rows of a query result all belong to user_id.
Owned(result, user_id) ==
    \A k \in 1..Len(result) : tasks[result[k]].user_id = user_id

\* The status filters the task lists are asked for.
StatusFilters == {{}, {"todo", "in_progress"}, {"done"}}

\* C12: for users A # B and a task t of B, get_task_by_id(t, A) finds
\* nothing, and get_user_tasks, get_overdue_tasks, get_tasks_due_today and
\* get_tasks_by_category called for A return only tasks owned by A.
C12_QueriesReturnOwnTasks ==
    \A a \in TgIds :
        /\ \A t \in DOMAIN tasks :
                tasks[t].user_id # a => ~get_task_by_id(tasks, t, a)
        /\ \A status_filter \in StatusFilters, c \in CategoryIds \cup {NoId} :
                Owned(get_user_tasks(tasks, a, status_filter, c), a)
        /\ \A today \in Days :
                /\ Owned(get_overdue_tasks(tasks, a, today), a)
                /\ Owned(get_tasks_due_today(tasks, a, today), a)
        /\ \A c \in CategoryIds \cup {NoId} :
                Owned(get_tasks_by_category(tasks, a, c), a)

\* C12 witness: users 1 and 2 each own an overdue task, and the queries for
\* user 1 return user 1's task alone.
C12_Witness ==
    \E t1, t2 \in DOMAIN tasks :
        /\ tasks[t1].user_id = 1 /\ tasks[t2].user_id = 2
        /\ tasks[t1].due_date = 1 /\ tasks[t2].due_date = 1
        /\ get_user_tasks(tasks, 1, {}, NoId) = <<t1>>
        /\ get_overdue_tasks(tasks, 1, 2) = <<t1>>
        /\ ~get_task_by_id(tasks, t2, 1)

\* C13: update_task, complete_task, cancel_task, set_task_in_progress and
\* delete_task called for a task id that does not exist or that another user
\* owns return None (False for delete_task) and change no task, user or
\* achievement record.
C13_NotOwnedChangesNothing ==
    [][(/\ last_call'.op \in {"update_task", "complete_task", "cancel_task",
                              "set_task_in_progress", "delete_task"}
        /\ ~(/\ last_call'.task_id \in DOMAIN tasks
             /\ tasks[last_call'.task_id].user_id = last_call'.user_id))
       => (/\ last_call'.result = FALSE
           /\ tasks' = tasks
           /\ users' = users
           /\ achievements' = achievements
           /\ user_achievements' = user_achievements)]_vars

\* C13 witness: complete_task was called by a user for a todo task of another
\* user and found nothing.
C13_Witness ==
    /\ last_call.op = "complete_task"
    /\ last_call.result = FALSE
    /\ last_call.task_id \in DOMAIN tasks
    /\ tasks[last_call.task_id].user_id # last_call.user_id
    /\ tasks[last_call.task_id].status = "todo"

\* C19: the reward is 5 for low, 10 for medium, 20 for high, 30 for critical
\* and 10 for an unrecognized priority, whatever the stored state.
C19_RewardTable ==
    last_call.op = "calculate_xp_reward" =>
        last_call.result =
            CASE last_call.priority = "low" -> 5
              [] last_call.priority = "medium" -> 10
              [] last_call.priority = "high" -> 20
              [] last_call.priority = "critical" -> 30
              [] OTHER -> 10

\* C19 witness: the reward of an unrecognized priority was computed while
\* tasks are stored.
C19_Witness ==
    /\ last_call.op = "calculate_xp_reward"
    /\ last_call.priority = "urgent"
    /\ last_call.result = 10
    /\ DOMAIN tasks # {}

\* C20: create_task adds one task, owned by the given user, with status todo,
\* completed_at unset, xp_reward by the priority table and is_important for
\* high and critical, and changes no other task and no user.
C20_CreateTaskEffect ==
    [][last_call'.op = "create_task" =>
        LET id == last_call'.task_id
        IN /\ id \notin DOMAIN tasks
           /\ DOMAIN tasks' = DOMAIN tasks \cup {id}
           /\ \A t \in DOMAIN tasks : tasks'[t] = tasks[t]
           /\ tasks'[id].user_id = last_call'.user_id
           /\ tasks'[id].status = "todo"
           /\ tasks'[id].completed_at = "None"
           /\ tasks'[id].xp_reward =
                    CASE tasks'[id].priority = "low" -> 5
                      [] tasks'[id].priority = "medium" -> 10
                      [] tasks'[id].priority = "high" -> 20
                      [] tasks'[id].priority = "critical" -> 30
           /\ tasks'[id].is_important =
                    (tasks'[id].priority \in {"high", "critical"})
           /\ users' = users]_vars

\* C20 witness: a critical task was created next to an existing task of a
\* registered user.
C20_Witness ==
    /\ last_call.op = "create_task"
    /\ Len(users) >= 1
    /\ Cardinality(DOMAIN tasks) = 2
    /\ tasks[last_call.task_id].priority = "critical"
    /\ tasks[last_call.task_id].xp_reward = 30
    /\ tasks[last_call.task_id].is_important
    /\ tasks[last_call.task_id].status = "todo"

\* C14: the condition check is true for tasks_count iff the user has at least
\* condition_value done tasks, for level iff the user's level is at least
\* condition_value, and for important_tasks iff the user has at least
\* condition_value tasks that are done and important.
C14_ConditionMatchesReference ==
    last_call.op = "check_achievement_condition" =>
        LET user_id == last_call.user_id
            condition_type == last_call.achievement.condition_type
            condition_value == last_call.achievement.condition_value
            done == {t \in DOMAIN tasks :
                        tasks[t].user_id = user_id /\ tasks[t].status = "done"}
            important == {t \in done : tasks[t].is_important}
        IN /\ condition_type = "tasks_count" =>
                (last_call.result <=> Cardinality(done) >= condition_value)
           /\ (condition_type = "level" /\ user_id \in 1..Len(users)) =>
                (last_call.result <=> users[user_id].level >= condition_value)
           /\ condition_type = "important_tasks" =>
                (last_call.result <=> Cardinality(important) >= condition_value)

\* C14 witness: the important_tasks condition with threshold 1 was found met
\* for a user whose one done task is important.
C14_Witness ==
    /\ last_call.op = "check_achievement_condition"
    /\ last_call.achievement.condition_type = "important_tasks"
    /\ last_call.achievement.condition_value = 1
    /\ last_call.result = TRUE
    /\ \E t \in DOMAIN tasks :
            /\ tasks[t].user_id = last_call.user_id
            /\ tasks[t].status = "done"
            /\ tasks[t].is_important

\* The condition types _check_achievement_condition has a branch for.
KnownConditionTypes == {"tasks_count", "level", "important_tasks"}

\* C15: no user ever holds a row for an achievement whose condition type is
\* not tasks_count, level or important_tasks.
C15_UnknownTypeNeverUnlocked ==
    \A k \in 1..Len(user_achievements) :
        achievements[user_achievements[k].achievement_id].condition_type
            \in KnownConditionTypes

\* C15 witness: check_achievements has unlocked an achievement for a user
\* while the table holds an achievement of unknown type with threshold 0,
\* for which the user has no row.
C15_Witness ==
    /\ last_call.op = "check_achievements"
    /\ last_call.new_achievements # <<>>
    /\ \E i \in 1..Len(achievements) :
            /\ achievements[i].condition_type \notin KnownConditionTypes
            /\ achievements[i].condition_value = 0
            /\ ~HasRow(last_call.user_id, i)

\* C16: the list check_achievements returns holds, in the order of the
\* achievements table, exactly the achievements whose row this call has
\* inserted, none of which was unlocked before the call.
C16_ResultIsInsertedRows ==
    \A r \in Sessions :
        sessions[r].call = "answer" =>
            /\ sessions[r].newly_unlocked = sessions[r].inserted
            /\ \A j \in 1..Len(sessions[r].newly_unlocked) :
                    /\ sessions[r].newly_unlocked[j] \notin sessions[r].unlocked_ids
                    /\ \A k \in 1..(j - 1) :
                            sessions[r].newly_unlocked[k]
                                < sessions[r].newly_unlocked[j]

RECURSIVE RewardSum(_)
\* The sum of xp_reward over a list of achievement ids.
RewardSum(ids) ==
    IF ids = <<>> THEN 0
    ELSE achievements[Head(ids)].xp_reward + RewardSum(Tail(ids))

\* C17: a row is inserted and its xp_reward credited together.  When
\* check_achievements returns the list L, the experience the call has
\* credited (the rewards of the rows it inserted) is the sum of xp_reward
\* over L; and the step that stores a new row raises the stored experience
\* of the row's user by that achievement's xp_reward, so that no state holds
\* a row whose bonus is not credited.
C17_RowAndBonusTogether ==
    [][/\ \A r \in Sessions :
            (sessions[r].call = "check_achievements" /\ sessions'[r].call = "answer")
                => RewardSum(sessions[r].inserted)
                        = RewardSum(sessions[r].newly_unlocked)
       /\ Len(user_achievements') > Len(user_achievements) =>
            LET row == user_achievements'[Len(user_achievements')]
            IN users'[row.user_id].experience =
                    users[row.user_id].experience
                        + achievements[row.achievement_id].xp_reward]_vars

\* The id of the achievement "Pervye shagi" (tasks_count >= 1, reward 50).
FirstSteps == CHOOSE i \in 1..Len(achievements) : achievements[i].name = "Pervye shagi"

\* The number of rows the user holds for the achievement in the table uas.
Rows(uas, user_id, achievement_id) ==
    Cardinality({k \in 1..Len(uas) :
                    /\ uas[k].user_id = user_id
                    /\ uas[k].achievement_id = achievement_id})

\* C18: when a user at level 1 with experience 0 and no done task completes a
\* task, that request unlocks "Pervye shagi" exactly once and leaves the
\* user's experience at the task's xp_reward + 50; a request of a user who
\* holds "Pervye shagi" does not unlock it again.
C18_FirstStepsOnce ==
    [][last_call'.op = "check_achievements" =>
        LET user_id == last_call'.user_id
            new_achievements == last_call'.new_achievements
            completed == {t \in DOMAIN tasks :
                            /\ tasks[t].user_id = user_id
                            /\ tasks[t].status # "done"
                            /\ tasks'[t].status = "done"}
        IN /\ (/\ users[user_id].level = 1
               /\ users[user_id].experience = 0
               /\ DoneTasks(user_id) = {}
               /\ completed # {})
              => /\ Cardinality({j \in 1..Len(new_achievements) :
                                    new_achievements[j] = FirstSteps}) = 1
                 /\ Rows(user_achievements', user_id, FirstSteps) = 1
                 /\ \A t \in completed :
                        users'[user_id].experience = tasks[t].xp_reward + 50
           /\ HasRow(user_id, FirstSteps)
              => /\ \A j \in 1..Len(new_achievements) :
                        new_achievements[j] # FirstSteps
                 /\ Rows(user_achievements', user_id, FirstSteps) = 1]_vars

\* C18 witness: a user has completed a critical task as the first one, the
\* request has unlocked "Pervye shagi" alone, and the experience is 80.
C18_Witness ==
    /\ last_call.op = "check_achievements"
    /\ last_call.new_achievements = <<FirstSteps>>
    /\ users[last_call.user_id].experience = 80
    /\ users[last_call.user_id].completed_tasks = 1
    /\ \E t \in DoneTasks(last_call.user_id) :
            tasks[t].priority = "critical" /\ tasks[t].xp_reward = 30
    /\ Rows(user_achievements, last_call.user_id, FirstSteps) = 1

\* C21: a task has completed_at set if and only if its status is done.
C21_CompletedAtIffDone ==
    \A t \in DOMAIN tasks :
        (tasks[t].completed_at # None) <=> (tasks[t].status = "done")

\* C22: after a successful delete_category(c, u) every task that referenced c
\* has no category, no task row is added or removed, every other field of
\* every task is as before, and the category c is gone.
C22_DeleteCategoryKeepsTasks ==
    [][(last_call'.op = "delete_category" /\ last_call'.result = TRUE) =>
        LET c == last_call'.category_id
        IN /\ DOMAIN tasks' = DOMAIN tasks
           /\ \A t \in DOMAIN tasks :
                /\ tasks[t].category_id = c => tasks'[t].category_id = NoId
                /\ tasks[t].category_id # c => tasks'[t] = tasks[t]
                /\ [tasks'[t] EXCEPT !.category_id = NoId]
                        = [tasks[t] EXCEPT !.category_id = NoId]
           /\ c \notin DOMAIN categories']_vars

\* C22 witness: a category was deleted by its owner; of the two tasks stored,
\* one has no category and the other is filed under another category id.
C22_Witness ==
    /\ last_call.op = "delete_category"
    /\ last_call.result = TRUE
    /\ last_call.category_id \notin DOMAIN categories
    /\ \E t1, t2 \in DOMAIN tasks :
            /\ tasks[t1].category_id = NoId
            /\ tasks[t2].category_id \notin {NoId, last_call.category_id}

\* C23: get_category_by_id, update_category and delete_category called with a
\* user id that does not own the category find nothing (None, None, False)
\* and change no category and no task.
C23_ForeignCategoryUntouched ==
    [][(/\ last_call'.op \in {"get_category_by_id", "update_category",
                              "delete_category"}
        /\ ~(/\ last_call'.category_id \in DOMAIN categories
             /\ categories[last_call'.category_id].user_id = last_call'.user_id))
       => (/\ last_call'.result = FALSE
           /\ categories' = categories
           /\ tasks' = tasks)]_vars

\* C23 witness: delete_category was called by a user for a category that
\* another user owns and a task is filed under, and found nothing.
C23_Witness ==
    /\ last_call.op = "delete_category"
    /\ last_call.result = FALSE
    /\ last_call.category_id \in DOMAIN categories
    /\ categories[last_call.category_id].user_id # last_call.user_id
    /\ \E t \in DOMAIN tasks : tasks[t].category_id = last_call.category_id

\* The ids a query result lists.
Listed(result) == {result[k] : k \in 1..Len(result)}

\* Place of a priority in the order critical, high, medium, low.
CriticalFirst(priority) ==
    CASE priority = "critical" -> 1
      [] priority = "high" -> 2
      [] priority = "medium" -> 3
      [] priority = "low" -> 4

\* C24: get_tasks_due_today returns exactly the user's tasks that are due
\* today and todo or in progress, each once, in the order critical, high,
\* medium, low.
C24_DueTodayCriticalFirst ==
    \A a \in TgIds, today \in Days :
        LET result == get_tasks_due_today(tasks, a, today)
        IN /\ Listed(result) = {t \in DOMAIN tasks :
                                    /\ tasks[t].user_id = a
                                    /\ tasks[t].due_date = today
                                    /\ tasks[t].status \in {"todo", "in_progress"}}
           /\ Len(result) = Cardinality(Listed(result))
           /\ \A j, k \in 1..Len(result) :
                    j < k => CriticalFirst(tasks[result[j]].priority)
                                <= CriticalFirst(tasks[result[k]].priority)

\* C25: get_overdue_tasks returns exactly the user's tasks that have a due
\* date before today and are todo or in progress, each once; a task that is
\* done or cancelled or has no due date is not returned.  is_overdue says the
\* same of a single task.
C25_OverdueExactly ==
    \A a \in TgIds, today \in Days :
        LET result == get_overdue_tasks(tasks, a, today)
        IN /\ Listed(result) = {t \in DOMAIN tasks :
                                    /\ tasks[t].user_id = a
                                    /\ tasks[t].due_date # NoDate
                                    /\ tasks[t].due_date < today
                                    /\ tasks[t].status \in {"todo", "in_progress"}}
           /\ Len(result) = Cardinality(Listed(result))
           /\ \A t \in DOMAIN tasks :
                    tasks[t].user_id = a =>
                        (is_overdue(tasks[t], today) <=> t \in Listed(result))

\* C25 witness: of two tasks of a user that were due yesterday, one is todo
\* and one is done, and the todo one alone is overdue.
C25_Witness ==
    \E t1, t2 \in DOMAIN tasks :
        /\ tasks[t1].user_id = 1 /\ tasks[t2].user_id = 1
        /\ tasks[t1].due_date = 1 /\ tasks[t2].due_date = 1
        /\ tasks[t1].status = "todo" /\ tasks[t2].status = "done"
        /\ get_overdue_tasks(tasks, 1, 2) = <<t1>>

\* C26: create_task with an empty title or a title of more than 200
\* characters fails and creates no task, and every stored task has a title
\* of 1 to 200 characters.
C26_TitleValidated ==
    [][/\ (/\ last_call'.op = "create_task"
           /\ (last_call'.text = <<>> \/ Len(last_call'.text) > 200))
          => (last_call'.result = FALSE /\ tasks' = tasks)
       /\ \A t \in DOMAIN tasks' :
            Len(tasks'[t].title) >= 1 /\ Len(tasks'[t].title) <= 200]_vars

\* C27: no step lowers a user's experience, completed_tasks or level,
\* whatever is cancelled, edited, re-opened or deleted.
C27_ProgressNeverDecreases ==
    [][\A u \in DOMAIN users :
            /\ users'[u].experience >= users[u].experience
            /\ users'[u].completed_tasks >= users[u].completed_tasks
            /\ users'[u].level >= users[u].level]_vars

\* The achievement ids of a user's rows, in the order of the rows.
UnlockedIds(user_id) ==
    LET kept == SelectSeq(user_achievements, LAMBDA row : row.user_id = user_id)
    IN [k \in 1..Len(kept) |-> kept[k].achievement_id]

\* C28: with requests handled one after the other and none failing, a
\* user's experience is the sum of the task rewards the user's completion
\* requests credited plus the sum of xp_reward over the achievements of the
\* user's rows.
C28_ExperienceIsSumOfGrants ==
    \A u \in DOMAIN users :
        users[u].experience = granted[u] + RewardSum(UnlockedIds(u))

\* A user whose experience is made of a task reward and an achievement
\* reward.
C28_Witness ==
    \E u \in DOMAIN users :
        /\ granted[u] > 0
        /\ RewardSum(UnlockedIds(u)) > 0
        /\ users[u].experience = granted[u] + RewardSum(UnlockedIds(u))

\* The number of achievements with the name.
Named(achs, name) == Cardinality({k \in 1..Len(achs) : achs[k].name = name})

\* Every default achievement is in the table.
AllSeeded(achs) ==
    \A i \in 1..Len(default_achievements) :
        Named(achs, default_achievements[i].name) >= 1

\* C29: seeding the default achievements is idempotent.  A run from any
\* table, partly seeded or not, leaves exactly one achievement per default
\* name and changes no existing achievement and no UserAchievement row; a
\* run on a table that holds every default (so every second and later run)
\* inserts nothing.
C29_SeedingIdempotent ==
    [][last_call'.op = "create_default_achievements" =>
        /\ \A i \in 1..Len(default_achievements) :
                Named(achievements', default_achievements[i].name) = 1
        /\ IsPrefix(achievements, achievements')
        /\ user_achievements' = user_achievements
        /\ (AllSeeded(achievements) \/ last_call.op = "create_default_achievements")
                => (achievements' = achievements /\ last_call'.result = <<>>)]_vars

\* A second run of the seeding, on a table the first run had to complete,
\* with a UserAchievement row stored.
C29_Witness ==
    /\ last_call.op = "create_default_achievements"
    /\ last_call.result = <<>>
    /\ user_achievements # <<>>
    /\ Len(achievements) = Len(default_achievements)
    /\ achievements # default_achievements

\* C30: delete_task(t, u) on a task owned by u removes exactly that task and
\* returns true, and get_task_by_id(t, u) finds nothing afterwards; the
\* same call made again returns false; in every case no other task changes
\* and users and UserAchievement rows stay as they are.
C30_DeleteTaskExactly ==
    [][last_call'.op = "delete_task" =>
        LET t == last_call'.task_id
            u == last_call'.user_id
            owned == t \in DOMAIN tasks /\ tasks[t].user_id = u
        IN /\ last_call'.result = owned
           /\ owned => /\ DOMAIN tasks' = DOMAIN tasks \ {t}
                       /\ ~get_task_by_id(tasks', t, u)
           /\ ~owned => DOMAIN tasks' = DOMAIN tasks
           /\ \A o \in DOMAIN tasks' : tasks'[o] = tasks[o]
           /\ users' = users
           /\ user_achievements' = user_achievements
           /\ (/\ last_call.op = "delete_task"
               /\ last_call.result
               /\ last_call.task_id = t
               /\ last_call.user_id = u) => last_call'.result = FALSE]_vars

\* A done task of a user with experience and an unlocked achievement has
\* been deleted and another task is left.
C30_Witness ==
    /\ last_call.op = "delete_task"
    /\ last_call.result
    /\ tasks # <<>>
    /\ users[last_call.user_id].experience > 0
    /\ users[last_call.user_id].completed_tasks > 0
    /\ HasRow(last_call.user_id, 1)
    /\ \A t \in DOMAIN tasks : tasks[t].status # "done"

\* C31: add_experience, update_completed_tasks_count and get_user_stats
\* called with a user id no user has return None and change nothing that is
\* stored.
C31_UnknownUserNothingDone ==
    [][(/\ last_call'.op \in {"add_experience", "update_completed_tasks_count",
                              "get_user_stats"}
        /\ last_call'.user_id \notin DOMAIN users)
       => /\ last_call'.result = FALSE
          /\ users' = users
          /\ tasks' = tasks
          /\ achievements' = achievements
          /\ user_achievements' = user_achievements
          /\ categories' = categories]_vars

\* add_experience has been called for a user id no user has, with a user
\* and a task stored.
C31_Witness ==
    /\ last_call.op = "add_experience"
    /\ last_call.user_id \notin DOMAIN users
    /\ last_call.result = FALSE
    /\ users # <<>>
    /\ tasks # <<>>

\* C32: update_task on an owned task sets the fields of the task that the
\* payload names to the payload's values and leaves every other field of the
\* task, every other task and every user as they were; a payload with the
\* priority alone leaves xp_reward and is_important as they were.
C32_UpdateTaskFrame ==
    [][(last_call'.op = "update_task" /\ last_call'.result) =>
        LET t == last_call'.task_id
            update_data == last_call'.update_data
        IN /\ DOMAIN tasks' = DOMAIN tasks
           /\ DOMAIN tasks'[t] = DOMAIN tasks[t]
           /\ \A field \in DOMAIN tasks[t] :
                IF field \in DOMAIN update_data
                THEN tasks'[t][field] = update_data[field]
                ELSE tasks'[t][field] = tasks[t][field]
           /\ DOMAIN update_data = {"priority"} =>
                /\ tasks'[t].xp_reward = tasks[t].xp_reward
                /\ tasks'[t].is_important = tasks[t].is_important
           /\ \A o \in DOMAIN tasks \ {t} : tasks'[o] = tasks[o]
           /\ users' = users]_vars

\* A low task was given the priority critical by a payload with the
\* priority alone: its reward is still that of a low task.
C32_Witness ==
    /\ last_call.op = "update_task"
    /\ last_call.result
    /\ DOMAIN last_call.update_data = {"priority"}
    /\ tasks[last_call.task_id].priority = "critical"
    /\ tasks[last_call.task_id].xp_reward = calculate_xp_reward("low")
    /\ tasks[last_call.task_id].is_important = FALSE

\* C33: referential integrity.  Every task's category_id that is not null is
\* the id of a category of the task's own user, every task's user_id is the
\* id of a user, and every UserAchievement row names a user and an
\* achievement that exist.
C33_ReferentialIntegrity ==
    /\ \A t \in DOMAIN tasks :
        /\ tasks[t].user_id \in DOMAIN users
        /\ tasks[t].category_id # NoId =>
            /\ tasks[t].category_id \in DOMAIN categories
            /\ categories[tasks[t].category_id].user_id = tasks[t].user_id
    /\ \A k \in DOMAIN user_achievements :
        /\ user_achievements[k].user_id \in DOMAIN users
        /\ user_achievements[k].achievement_id \in DOMAIN achievements

\* C34: a user is created on first contact and accounts map one to one to
\* users.  /start from an account without a user appends one user for it,
\* with level 1, experience 0 and completed_tasks 0; /start from an account
\* that has a user changes no user; and no two users have the same tg_id.
C34_StartCreatesOnce ==
    [][last_call'.op = "cmd_start" =>
        LET tg_id == last_call'.tg_id
            known == \E i \in DOMAIN users : users[i].tg_id = tg_id
        IN /\ known => users' = users
           /\ ~known => users' = Append(users, [tg_id |-> tg_id, level |-> 1,
                                                experience |-> 0,
                                                completed_tasks |-> 0])
           /\ \A i, j \in DOMAIN users' :
                users'[i].tg_id = users'[j].tg_id => i = j]_vars

\* /start came again from an account whose user has experience and a
\* completed task, with another user registered.
C34_Witness ==
    /\ last_call.op = "cmd_start"
    /\ Len(users) = 2
    /\ \E i \in DOMAIN users :
        /\ users[i].tg_id = last_call.tg_id
        /\ users[i].experience > 0
        /\ users[i].completed_tasks > 0

\* C35: in every state in which no request is being handled, a user's
\* completed_tasks is at least the number of the user's tasks whose status
\* is done.
C35_CounterCoversDoneTasks ==
    Quiet =>
        \A u \in DOMAIN users :
            users[u].completed_tasks
                >= Cardinality({t \in DOMAIN tasks :
                        tasks[t].user_id = u /\ tasks[t].status = "done"})

\* C36: unlocks are permanent.  No step removes or changes a UserAchievement
\* row, whatever is deleted, cancelled or re-opened, and no step lowers the
\* experience of a user who holds a row, so that the bonus stays credited.
C36_UnlocksPermanent ==
    [][/\ IsPrefix(user_achievements, user_achievements')
       /\ \A u \in DOMAIN users :
            UnlockedIds(u) # <<>> => users'[u].experience >= users[u].experience]_vars

\* C37: cancelling a task or setting it in progress grants nothing.  The
\* confirm-cancel and the in-progress request leave every user (experience,
\* level, completed_tasks) and every UserAchievement row as they were, and
\* change at most one task, and of that task the status alone.
C37_StatusChangeGrantsNothing ==
    [][last_call' = NoCall =>
        /\ users' = users
        /\ user_achievements' = user_achievements
        /\ DOMAIN tasks' = DOMAIN tasks
        /\ Cardinality({t \in DOMAIN tasks : tasks'[t] # tasks[t]}) <= 1
        /\ \A t \in DOMAIN tasks :
            /\ tasks'[t] = [tasks[t] EXCEPT !.status = tasks'[t].status]
            /\ tasks'[t] # tasks[t] => tasks'[t].status \in {"in_progress", "cancelled"}]_vars

\* A done task of a user who has experience, a counted completion and an
\* unlocked achievement has been cancelled, and the user has another task.
C37_Witness ==
    /\ last_call = NoCall
    /\ \E t \in DOMAIN tasks :
        /\ tasks[t].status = "cancelled"
        /\ tasks[t].completed_at # None
        /\ users[tasks[t].user_id].experience > 0
        /\ users[tasks[t].user_id].completed_tasks > 0
        /\ HasRow(tasks[t].user_id, 1)
        /\ \E o \in DOMAIN tasks \ {t} : tasks[o].user_id = tasks[t].user_id

\* C38: no update is lost when two completion requests of one user for two
\* different tasks interleave.  When both have answered, the user's
\* completed_tasks has grown by 2 (from 0: these are the user's only
\* completions) and the user's experience holds both tasks' xp_reward
\* besides the reward of every achievement row.
C38_NoLostUpdate ==
    (/\ \A r \in Sessions :
            /\ sessions[r].call = "answer"
            /\ \E k \in DOMAIN sessions[r].calls :
                    sessions[r].calls[k] = "update_completed_tasks_count"
     /\ sessions[1].task_id # sessions[2].task_id
     /\ sessions[1].user_id = sessions[2].user_id)
    => LET u == sessions[1].user_id
       IN /\ users[u].completed_tasks = 2
          /\ users[u].experience
                = sessions[1].xp_reward + sessions[2].xp_reward
                    + RewardSum(UnlockedIds(u))

\* C39: a callback with the data category:delete:<id> is handled by
\* delete_category_confirm, the handler that asks for the confirmation.
C39_DeleteIsDispatched ==
    (/\ last_call.op = "callback"
     /\ Len(last_call.data) = 3
     /\ last_call.data[1] = "category"
     /\ last_call.data[2] = "delete")
    => last_call.handler = "delete_category_confirm"

====
